---- MODULE Spec2Model ----
(***************************************************************************)
(* Model of the IFC -> fragments conversion orchestration of KrazB/XSBA.   *)
(*                                                                         *)
(*   Spec          ProjectIfcConverter (F16_CO_FLD_ConvertIfc_Fragments_   *)
(*                 BYT.py): orchestrator runs over one source/target       *)
(*                 directory, storing into the primary and secondary       *)
(*                 FragmentsBYTEAHandler sinks.                            *)
(*   SpecConcurrent  the same, several converters running at once.         *)
(*   SpecPortable  IfcFragmentsConverter (frag_convert/                    *)
(*                 ifc_fragments_converter.py): the portable converter     *)
(*                 and its Node.js child.                                  *)
(*   SpecHttp      the /api/convert endpoint (backend/app.py) and          *)
(*                 XFRGSubprocessConverter (backend/                       *)
(*                 subprocess_converter.py).                               *)
(*   SpecRun       run() of either converter: environment validation, the  *)
(*                 conversion, an operator interrupt, the value returned.  *)
(*   SpecPolicy    the size tiers of /api/convert and                      *)
(*                 /api/convert-subprocess (backend/app.py).               *)
(*   SpecLaunch    the three launchers of a worker child.                  *)
(*   SpecRerun     run() called again on a ProjectIfcConverter whose       *)
(*                 earlier run() has returned True.                        *)
(*   SpecSubprocess  the /api/convert-subprocess endpoint, next to         *)
(*                 /api/convert.                                           *)
(*   SpecMock      the fallback's mock fragment as a function of the       *)
(*                 input bytes.                                            *)
(***************************************************************************)
EXTENDS Integers, Sequences, FiniteSets, TLC

(***************************************************************************)
(* Bounds of the model.                                                    *)
(***************************************************************************)
NumRuns == 2
NumFiles == 2
NumFragContents == 1

Runs == 1..NumRuns
FileNames == 1..NumFiles

Min(a, b) == IF a <= b THEN a ELSE b

(***************************************************************************)
(* Files.  A file is [exists, data]; data is a sequence of byte chunks.    *)
(***************************************************************************)
Absent == [exists |-> FALSE, data |-> << >>]
File(d) == [exists |-> TRUE, data |-> d]

\* The bytes of the IFC file named f (each name has its own content).
IfcData(f) == << "ifc", ToString(f) >>

\* The byte strings the external worker may leave at the output path.
FragContents == { << "frag", ToString(k) >> : k \in 1..NumFragContents }

\* What a child process does to <stem>.frag: nothing, an empty file, bytes.
ChildWrites == {Absent, File(<< >>)} \cup { File(d) : d \in FragContents }

\* Mutant: the whole input is copied into the mock.
MockFragmentData_Whole(ifc_data) ==
    << "MOCK_FRAGMENT_HEADER\n" >> \o ifc_data
        \o << "\nMOCK_FRAGMENT_FOOTER" >>

\* _fallback_mock_conversion, line 556: header + first 1 KB + footer.
KB == 1024
MockFragmentData(ifc_data) ==
    << "MOCK_FRAGMENT_HEADER\n" >>
        \o SubSeq(ifc_data, 1, Min(KB, Len(ifc_data)))
        \o << "\nMOCK_FRAGMENT_FOOTER" >>

\* calculate_file_hash: SHA-256 of the bytes (injective on the model's data).
calculate_file_hash(data) == [sha256 |-> data]

VARIABLES
    source_dir,                  \* names of the *.ifc files in Path_F1_CO
    target_dir,                  \* stem -> the file <stem>.frag
    db,                          \* sink -> rows of F1600_CO_Fragments_bytea
    database_enabled,            \* run -> self.database_enabled
    secondary_database_enabled,  \* run -> self.secondary_database_enabled
    pc,                          \* run -> control point
    item,                        \* run -> index of the file being processed
    stats,                       \* run -> self.stats
    cur,                         \* run -> locals of convert_single_file
    hist,                        \* run -> what happened to each item (ghost)
    reports,                     \* run -> the report files save_report wrote
    emitted,                     \* run -> calls of save_report (ghost)
    run_result                   \* run -> what run() returned, and why

batchVars == << source_dir, target_dir, db, database_enabled,
                secondary_database_enabled, pc, item, stats, cur, hist,
                reports, emitted, run_result >>

\* IfcFragmentsConverter (frag_convert/ifc_fragments_converter.py).
VARIABLES
    interactive,                 \* not args.auto
    conv_source,                 \* names of the IFC files in self.source_dir
    conv_target,                 \* stem -> the file <stem>.frag
    conv_pc,                     \* control point of run()
    conv_item,                   \* index of the file being processed
    conv_stats,                  \* self.stats
    conv_result,                 \* the result convert_single_file returns
    child,                       \* the Node.js child of subprocess.run
    conv_hist,                   \* what happened to each item (ghost)
    conv_reports,                \* the report files save_report wrote
    conv_emitted,                \* calls of save_report (ghost)
    conv_run_result              \* what run() returned, and why

portableVars == << interactive, conv_source, conv_target, conv_pc, conv_item,
                   conv_stats, conv_result, child, conv_hist, conv_reports,
                   conv_emitted, conv_run_result >>

\* The /api/convert endpoint (backend/app.py) and XFRGSubprocessConverter
\* (backend/subprocess_converter.py).
VARIABLES
    fragments_dir,               \* output name -> the file in FRAGMENTS_DIR
    temp_files,                  \* requests whose temporary IFC file exists
    http_pc,                     \* control point of convert_ifc
    http_n,                      \* requests received so far
    http_req,                    \* the request being handled
    http_loc,                    \* locals of convert_ifc
    http_resp,                   \* the response to the last request
    xfrg_output,                 \* the output file of convert_ifc_file
    xfrg_result                  \* the dict convert_ifc_file returned

httpVars == << fragments_dir, temp_files, http_pc, http_n, http_req,
               http_loc, http_resp, xfrg_output, xfrg_result >>

\* The size tiers of backend/app.py, applied to a pair of upload sizes.
VARIABLES
    policy_in,                   \* two upload sizes, in bytes
    policy_out                   \* the policies selected for them

policyVars == << policy_in, policy_out >>

\* _fallback_mock_conversion, applied to two inputs.
VARIABLES
    mock_in,                     \* the bytes of two IFC files
    mock_out                     \* the mock fragments made of them

mockVars == << mock_in, mock_out >>

vars == << batchVars, portableVars, httpVars, policyVars, mockVars >>

notBatch == << portableVars, httpVars, policyVars, mockVars >>
notPortable == << batchVars, httpVars, policyVars, mockVars >>
notHttp == << batchVars, portableVars, policyVars, mockVars >>
notPolicy == << batchVars, portableVars, httpVars, mockVars >>
notMock == << batchVars, portableVars, httpVars, policyVars >>

\* run() has not returned; checks: what validate_environment found (ghost).
NoResult == [returned |-> "none", why |-> "none", checks |-> << >>]

Sinks == {"primary", "secondary"}

\* self.stats as set in __init__, lines 336-349.
InitStats ==
    [ total_files |-> 0, successful |-> 0, failed |-> 0, skipped |-> 0,
      db_stored |-> 0, db_failed |-> 0,
      db_stored_secondary |-> 0, db_failed_secondary |-> 0,
      results |-> << >> ]

\* Locals of one convert_single_file call, before the worker is launched.
InitCur ==
    [ worker |-> "none",          \* how subprocess.run ended
      wrote |-> FALSE,            \* ghost: the worker wrote the output
      accepted |-> FALSE,         \* line 497-499 taken
      producer |-> "none",        \* whose metadata: portable / mock
      sink |-> "none",            \* handler store_fragment is running on
      file_hash |-> calculate_file_hash(<< >>),
      db_stored_primary |-> FALSE,
      db_stored_secondary |-> FALSE,
      result |-> [status |-> "none"],
      fallbacks |-> 0,            \* ghost: calls of _fallback_mock_conversion
      calls |-> [s \in Sinks |-> 0],       \* ghost: store_fragment calls
      why |-> [s \in Sinks |-> "none"] ]   \* ghost: how each call ended

\* Mutant: the names in descending order.
RECURSIVE Sorted_Descending(_)
Sorted_Descending(S) ==
    IF S = {} THEN << >>
    ELSE LET m == CHOOSE x \in S : \A y \in S : x >= y
         IN << m >> \o Sorted_Descending(S \ {m})

\* sorted(set(ifc_files)), line 442: ascending, each name once.
RECURSIVE Sorted(_)
Sorted(S) ==
    IF S = {} THEN << >>
    ELSE LET m == CHOOSE x \in S : \A y \in S : x <= y
         IN << m >> \o Sorted(S \ {m})

ifc_files == Sorted(source_dir)

\* The state after construction (__init__, lines 257-349) of the converters
\* in `active`, over a directory holding the IFC files `files`, about to
\* execute `start`.  Whether a sink is enabled is decided by the
\* environment (lines 272-308).
InitAt(active, files, start) ==
    /\ source_dir \in SUBSET files
    /\ target_dir = [f \in FileNames |-> Absent]
    /\ db = [s \in Sinks |-> << >>]
    /\ database_enabled \in [Runs -> BOOLEAN]
    /\ secondary_database_enabled \in [Runs -> BOOLEAN]
    /\ \A r \in Runs \ active :
          ~database_enabled[r] /\ ~secondary_database_enabled[r]
    /\ pc = [r \in Runs |-> IF r \in active THEN start ELSE "idle"]
    /\ item = [r \in Runs |-> 0]
    /\ stats = [r \in Runs |-> InitStats]
    /\ cur = [r \in Runs |-> InitCur]
    /\ hist = [r \in Runs |-> << >>]
    /\ reports = [r \in Runs |-> << >>]
    /\ emitted = [r \in Runs |-> 0]
    /\ run_result = [r \in Runs |-> NoResult]

\* The same, with convert_all_files about to be called.
InitWith(active, files) == InitAt(active, files, "convert_all_files")

\* No portable converter is running.
PortableIdle ==
    /\ interactive = FALSE
    /\ conv_source = {}
    /\ conv_target = [f \in FileNames |-> Absent]
    /\ conv_pc = "idle"
    /\ conv_item = 0
    /\ conv_stats = [total_files |-> 0, successful |-> 0, failed |-> 0,
                     skipped |-> 0, results |-> << >>]
    /\ conv_result = [status |-> "none"]
    /\ child = [state |-> "none", elapsed |-> 0]
    /\ conv_hist = << >>
    /\ conv_reports = << >>
    /\ conv_emitted = 0
    /\ conv_run_result = NoResult

\* The names an upload can be converted to in FRAGMENTS_DIR.
OutputNames == {"model.frag", "model_subprocess.frag"}

\* The server has received no request and convert_ifc_file was not called.
HttpIdle ==
    /\ fragments_dir = [n \in OutputNames |-> Absent]
    /\ temp_files = {}
    /\ http_pc = "idle"
    /\ http_n = 0
    /\ http_req = [has_file |-> FALSE, filename |-> "", size |-> 0]
    /\ http_loc = [temp |-> "none", memory |-> 0, timeout |-> 0,
                   returncode |-> 0, launches |-> 0, raised |-> 0,
                   before |-> {}]
    /\ http_resp = [code |-> 0, json |-> FALSE, success |-> "absent"]
    /\ xfrg_output = Absent
    /\ xfrg_result = [success |-> "absent"]

\* No pair of sizes is being looked at.
PolicyIdle ==
    /\ policy_in = << 0, 0 >>
    /\ policy_out = [endpoint |-> "none"]

\* No pair of inputs is being looked at.
MockIdle ==
    /\ mock_in = << << >>, << >> >>
    /\ mock_out = [made |-> FALSE]

\* One converter runs over the directory.
Init == InitWith({1}, FileNames) /\ PortableIdle /\ HttpIdle /\ PolicyIdle /\ MockIdle

\* Every converter runs, concurrently, over a directory of one file.
InitConcurrent ==
    InitWith(Runs, {1}) /\ PortableIdle /\ HttpIdle /\ PolicyIdle /\ MockIdle

\* No ProjectIfcConverter is running.
BatchIdle == InitWith({}, {})

(***************************************************************************)
(* ProjectIfcConverter: one run of convert_all_files.                      *)
(***************************************************************************)
\* The file convert_single_file is working on, and its output path.
ifc_file(r) == ifc_files[item[r]]
output_file(r) == target_dir[ifc_file(r)]

\* convert_all_files, lines 663-675: discovery, then the first item.
FindIfcFiles(r) ==
    /\ pc[r] = "convert_all_files"
    /\ stats' = [stats EXCEPT ![r].total_files = Len(ifc_files)]
    /\ IF ifc_files = << >>
       THEN pc' = [pc EXCEPT ![r] = "returned"] /\ item' = item
       ELSE /\ pc' = [pc EXCEPT ![r] = "convert_single_file"]
            /\ item' = [item EXCEPT ![r] = 1]
    /\ UNCHANGED << notBatch, run_result, emitted, source_dir, target_dir, db,
                    database_enabled, secondary_database_enabled, cur, hist,
                    reports >>

\* How subprocess.run(cmd, timeout=30) can end, lines 486-490 and 510-519.
WorkerOutcomes == {"zero", "nonzero", "timeout", "launch_error"}

\* A child's effect on the output path: Absent stands for "not written".
Written(old, w) == IF w = Absent THEN old ELSE w

\* convert_single_file, lines 474-490 and 510-519: the worker child runs
\* and subprocess.run returns or raises.
RunPortableConverter(r) ==
    /\ pc[r] = "convert_single_file"
    /\ \E outcome \in WorkerOutcomes, w \in ChildWrites :
          /\ outcome = "launch_error" => w = Absent
          /\ target_dir' = [target_dir EXCEPT
                               ![ifc_file(r)] = Written(@, w)]
          /\ cur' = [cur EXCEPT ![r].worker = outcome,
                                 ![r].wrote = (w # Absent)]
          /\ pc' = [pc EXCEPT ![r] =
                       IF outcome \in {"zero", "nonzero"}
                       THEN "parse_result" ELSE "fallback"]
    /\ UNCHANGED << notBatch, run_result, emitted, source_dir, db,
                    database_enabled, secondary_database_enabled, item, stats,
                    hist, reports >>

\* Lines 495-497: exit status 0, output exists, output is not empty.
WorkerAccepted(worker, out) ==
    worker = "zero" /\ out.exists /\ Len(out.data) > 0

\* convert_single_file, lines 495-508: parse the result of the child.
ParseResult(r) ==
    /\ pc[r] = "parse_result"
    /\ IF WorkerAccepted(cur[r].worker, output_file(r))
       THEN /\ cur' = [cur EXCEPT ![r].accepted = TRUE]
            /\ pc' = [pc EXCEPT ![r] = "process_successful_conversion"]
       ELSE /\ cur' = cur
            /\ pc' = [pc EXCEPT ![r] = "fallback"]
    /\ UNCHANGED << notBatch, run_result, emitted, source_dir, target_dir, db,
                    database_enabled, secondary_database_enabled, item, stats,
                    hist, reports >>

\* Mutant: the two sink flags of the result are swapped.
SuccessResult_Swapped(f, p, s) ==
    [file |-> f, status |-> "success", db_stored |-> s,
     db_stored_secondary |-> p]

\* Mutant: a failed fallback is reported as a success.
FailedResult_Success(f) ==
    [file |-> f, status |-> "success", db_stored |-> FALSE,
     db_stored_secondary |-> FALSE]

\* The result dicts of lines 645-657 and 590-597.
SuccessResult(f, p, s) ==
    [file |-> f, status |-> "success", db_stored |-> p,
     db_stored_secondary |-> s]
FailedResult(f) ==
    [file |-> f, status |-> "failed", db_stored |-> FALSE,
     db_stored_secondary |-> FALSE]

\* Mutant: the secondary store no longer waits for the primary one.
CanAttemptSecondary_Always(r, db_stored_primary) == TRUE

\* _store_fragment_and_return_result, lines 622-629: can_attempt_secondary.
CanAttemptSecondary(r, db_stored_primary) ==
    IF database_enabled[r] THEN db_stored_primary ELSE TRUE

\* A call of store_fragment on handler s begins.
CallStore(c, s) ==
    [c EXCEPT !.sink = s, !.calls[s] = @ + 1]

\* Mutant: the secondary handler is called first.
BeginStore_SecondaryFirst(r, c) ==
    IF secondary_database_enabled[r]
    THEN [pc |-> "select", cur |-> CallStore(c, "secondary")]
    ELSE IF database_enabled[r]
    THEN [pc |-> "select", cur |-> CallStore(c, "primary")]
    ELSE [pc |-> "append",
          cur |-> [c EXCEPT !.result = SuccessResult(ifc_file(r), FALSE, FALSE)]]

\* _store_fragment_and_return_result, lines 601-609 and 618-637, entered
\* with locals c: the first handler called, or the result if there is none.
BeginStore(r, c) ==
    IF database_enabled[r]
    THEN [pc |-> "select", cur |-> CallStore(c, "primary")]
    ELSE IF secondary_database_enabled[r] /\ CanAttemptSecondary(r, FALSE)
    THEN [pc |-> "select", cur |-> CallStore(c, "secondary")]
    ELSE [pc |-> "append",
          cur |-> [c EXCEPT !.result = SuccessResult(ifc_file(r), FALSE, FALSE)]]

\* _store_fragment_and_return_result, lines 611-657: store_fragment on
\* handler c.sink returned b (ghost: why).
EndStore(r, c, b, why) ==
    IF c.sink = "primary"
    THEN LET c1 == [c EXCEPT !.db_stored_primary = b, !.why["primary"] = why]
             st == IF b THEN [stats[r] EXCEPT !.db_stored = @ + 1]
                        ELSE [stats[r] EXCEPT !.db_failed = @ + 1]
         IN IF secondary_database_enabled[r] /\ CanAttemptSecondary(r, b)
            THEN [pc |-> "select", cur |-> CallStore(c1, "secondary"),
                  stats |-> st]
            ELSE [pc |-> "append",
                  cur |-> [c1 EXCEPT !.sink = "none",
                             !.result = SuccessResult(ifc_file(r), b, FALSE)],
                  stats |-> st]
    ELSE LET c1 == [c EXCEPT !.db_stored_secondary = b,
                             !.why["secondary"] = why]
             st == IF b THEN [stats[r] EXCEPT !.db_stored_secondary = @ + 1]
                        ELSE [stats[r] EXCEPT !.db_failed_secondary = @ + 1]
         IN [pc |-> "append",
             cur |-> [c1 EXCEPT !.sink = "none",
                        !.result = SuccessResult(ifc_file(r),
                                                 c.db_stored_primary, b)],
             stats |-> st]

\* _process_successful_conversion, lines 521-544, called inside the try of
\* convert_single_file (line 499): a stat() that raises is caught at 515.
ProcessSuccessfulConversion(r) ==
    /\ pc[r] = "process_successful_conversion"
    /\ \E stat_error \in BOOLEAN :
          IF stat_error \/ ~output_file(r).exists
          THEN /\ pc' = [pc EXCEPT ![r] = "fallback"]
               /\ cur' = cur
          ELSE LET b == BeginStore(r, [cur[r] EXCEPT !.producer = "portable"])
               IN /\ pc' = [pc EXCEPT ![r] = b.pc]
                  /\ cur' = [cur EXCEPT ![r] = b.cur]
    /\ UNCHANGED << notBatch, run_result, emitted, source_dir, target_dir, db,
                    database_enabled, secondary_database_enabled, item, stats,
                    hist, reports >>

\* How the body of _fallback_mock_conversion can end, lines 550-597.
FallbackOutcomes == {"read_error", "write_error", "stat_error", "ok"}

\* _fallback_mock_conversion, lines 546-597.
FallbackMockConversion(r) ==
    /\ pc[r] = "fallback"
    /\ \E outcome \in FallbackOutcomes :
          LET c == [cur[r] EXCEPT !.fallbacks = @ + 1]
              mock == File(MockFragmentData(IfcData(ifc_file(r))))
          IN /\ target_dir' = [target_dir EXCEPT ![ifc_file(r)] =
                    CASE outcome = "read_error" -> @
                      [] outcome = "write_error" -> File(<< >>)
                      [] OTHER -> mock]
             /\ IF outcome = "ok"
                THEN LET b == BeginStore(r, [c EXCEPT !.producer = "mock"])
                     IN /\ pc' = [pc EXCEPT ![r] = b.pc]
                        /\ cur' = [cur EXCEPT ![r] = b.cur]
                ELSE /\ pc' = [pc EXCEPT ![r] = "append"]
                     /\ cur' = [cur EXCEPT ![r] =
                            [c EXCEPT !.result = FailedResult(ifc_file(r))]]
    /\ UNCHANGED << notBatch, run_result, emitted, source_dir, db,
                    database_enabled, secondary_database_enabled, item, stats,
                    hist, reports >>

\* Mutant: the fallback's metadata names the portable converter.
ConverterVersion_Portable(producer) == "portable_ifc_fragments_converter"

\* The row store_fragment inserts, lines 205-218.
ConverterVersion(producer) ==
    IF producer = "mock" THEN "mock_converter_fallback"
    ELSE "portable_ifc_fragments_converter"
Row(rows, f, h, data, producer) ==
    [ id |-> Len(rows) + 1, filename |-> f, file_hash |-> h,
      fragment_data |-> data, ifc_source_file |-> f,
      conversion_metadata |-> [converter_version |-> ConverterVersion(producer)] ]

\* Mutant: the existence check never finds the hash.
HashPresent_Never(rows, h) == FALSE

\* Mutant: the table has no UNIQUE constraint on file_hash.
UniqueViolation_Never(rows, h) == FALSE

\* SELECT id ... WHERE file_hash = %s, lines 189-194.
HashPresent(rows, h) == \E i \in 1..Len(rows) : rows[i].file_hash = h

\* file_hash VARCHAR(64) UNIQUE NOT NULL, line 143: the INSERT is rejected.
UniqueViolation(rows, h) == \E i \in 1..Len(rows) : rows[i].file_hash = h

\* Mutant: the row that holds the hash is updated to the new file name.
Selected_Updating(rows, h, f) ==
    [k \in 1..Len(rows) |->
        IF rows[k].file_hash = h
        THEN [rows[k] EXCEPT !.filename = f, !.ifc_source_file = f]
        ELSE rows[k]]

\* The table after the existence check of lines 186-196: a SELECT, then
\* return True when a row was found; no row is written.
Selected(rows, h, f) == rows

\* store_fragment, lines 181-196: hash the file, look the hash up.  Any
\* exception (I/O, connection) is caught at line 226 and gives False.
StoreSelect(r) ==
    /\ pc[r] = "select"
    /\ \E error \in BOOLEAN :
          LET s == cur[r].sink
              h == calculate_file_hash(output_file(r).data)
              e == IF error \/ ~output_file(r).exists
                   THEN EndStore(r, cur[r], FALSE, "error")
                   ELSE IF HashPresent(db[s], h)
                   THEN EndStore(r, cur[r], TRUE, "present")
                   ELSE [pc |-> "insert",
                         cur |-> [cur[r] EXCEPT !.file_hash = h],
                         stats |-> stats[r]]
          IN /\ pc' = [pc EXCEPT ![r] = e.pc]
             /\ cur' = [cur EXCEPT ![r] = e.cur]
             /\ stats' = [stats EXCEPT ![r] = e.stats]
             /\ db' = [db EXCEPT ![s] = Selected(@, h, ifc_file(r))]
    /\ UNCHANGED << notBatch, run_result, emitted, source_dir, target_dir,
                    database_enabled, secondary_database_enabled, item, hist,
                    reports >>

\* store_fragment, lines 198-228: read the file, INSERT the row, commit.
StoreInsert(r) ==
    /\ pc[r] = "insert"
    /\ \E error \in BOOLEAN :
          LET s == cur[r].sink
              h == cur[r].file_hash
              row == Row(db[s], ifc_file(r), h, output_file(r).data,
                         cur[r].producer)
              ok == ~error /\ output_file(r).exists
                      /\ ~UniqueViolation(db[s], h)
              e == IF ok THEN EndStore(r, cur[r], TRUE, "stored")
                   ELSE IF error \/ ~output_file(r).exists
                   THEN EndStore(r, cur[r], FALSE, "error")
                   ELSE EndStore(r, cur[r], FALSE, "duplicate")
          IN /\ db' = IF ok THEN [db EXCEPT ![s] = Append(@, row)] ELSE db
             /\ pc' = [pc EXCEPT ![r] = e.pc]
             /\ cur' = [cur EXCEPT ![r] = e.cur]
             /\ stats' = [stats EXCEPT ![r] = e.stats]
    /\ UNCHANGED << notBatch, run_result, emitted, source_dir, target_dir,
                    database_enabled, secondary_database_enabled, item, hist,
                    reports >>

\* Mutant: only successes are counted.
Counted_SuccessOnly(st, status) ==
    IF status = "success" THEN [st EXCEPT !.successful = @ + 1] ELSE st

\* The counter a result's status raises, lines 682-687.
Counted(st, status) ==
    CASE status = "success" -> [st EXCEPT !.successful = @ + 1]
      [] status = "failed" -> [st EXCEPT !.failed = @ + 1]
      [] status = "skipped" -> [st EXCEPT !.skipped = @ + 1]
      [] OTHER -> st

\* Mutant: the result is counted but not appended to stats['results'].
AppendResult_Dropped(r) ==
    /\ pc[r] = "append"
    /\ stats' = [stats EXCEPT ![r] = Counted(@, cur[r].result.status)]
    /\ hist' = [hist EXCEPT ![r] = Append(@, cur[r])]
    /\ cur' = [cur EXCEPT ![r] = InitCur]
    /\ IF item[r] < Len(ifc_files)
       THEN /\ item' = [item EXCEPT ![r] = @ + 1]
            /\ pc' = [pc EXCEPT ![r] = "convert_single_file"]
       ELSE /\ item' = item
            /\ pc' = [pc EXCEPT ![r] = "print_summary"]
    /\ UNCHANGED << notBatch, run_result, emitted, source_dir, target_dir, db,
                    database_enabled, secondary_database_enabled, reports >>

\* convert_all_files, lines 675-691: append the result, count it, go on.
AppendResult(r) ==
    /\ pc[r] = "append"
    /\ stats' = [stats EXCEPT ![r] =
          Counted([@ EXCEPT !.results = Append(@, cur[r].result)],
                  cur[r].result.status)]
    /\ hist' = [hist EXCEPT ![r] = Append(@, cur[r])]
    /\ cur' = [cur EXCEPT ![r] = InitCur]
    /\ IF item[r] < Len(ifc_files)
       THEN /\ item' = [item EXCEPT ![r] = @ + 1]
            /\ pc' = [pc EXCEPT ![r] = "convert_single_file"]
       ELSE /\ item' = item
            /\ pc' = [pc EXCEPT ![r] = "print_summary"]
    /\ UNCHANGED << notBatch, run_result, emitted, source_dir, target_dir, db,
                    database_enabled, secondary_database_enabled, reports >>

\* print_summary, lines 716-735: get_storage_stats of an enabled sink.  A
\* query that fails returns {} and the lines are skipped; over an empty
\* table SUM(file_size_bytes) is NULL, total_size_bytes is None and the
\* division of line 723 or 733 raises TypeError.
StorageStatsOutcomes(r) ==
    IF \/ database_enabled[r] /\ db["primary"] = << >>
       \/ secondary_database_enabled[r] /\ db["secondary"] = << >>
    THEN {"ok", "type_error"}
    ELSE {"ok"}

\* convert_all_files, lines 693-697, print_summary and save_report, lines
\* 699-820: an exception of print_summary leaves convert_all_files before
\* save_report is called; a report that cannot be written is logged,
\* nothing more.
PrintSummary(r) ==
    /\ pc[r] = "print_summary"
    /\ \E outcome \in StorageStatsOutcomes(r), written \in BOOLEAN :
          IF outcome = "type_error"
          THEN /\ reports' = reports
               /\ emitted' = emitted
               /\ pc' = [pc EXCEPT ![r] = "raised"]
          ELSE /\ reports' = IF written
                             THEN [reports EXCEPT ![r] = Append(@, stats[r])]
                             ELSE reports
               /\ emitted' = [emitted EXCEPT ![r] = @ + 1]
               /\ pc' = [pc EXCEPT ![r] = "done"]
    /\ UNCHANGED << notBatch, run_result, source_dir, target_dir, db,
                    database_enabled, secondary_database_enabled, item, stats,
                    cur, hist >>

Next ==
    \E r \in Runs :
        \/ FindIfcFiles(r)
        \/ RunPortableConverter(r)
        \/ ParseResult(r)
        \/ ProcessSuccessfulConversion(r)
        \/ FallbackMockConversion(r)
        \/ StoreSelect(r)
        \/ StoreInsert(r)
        \/ AppendResult(r)
        \/ PrintSummary(r)

Spec == Init /\ [][Next]_vars

SpecConcurrent == InitConcurrent /\ [][Next]_vars

(***************************************************************************)
(* IfcFragmentsConverter: run(interactive) of the portable converter.      *)
(***************************************************************************)
\* Seconds of wall-clock time the model tells apart: the timeouts of the
\* launchers (30 s at F16 line 490; 600, 1200, 1800 and 3600 s in
\* backend/app.py), and Horizon, a time after all of them.
LongestTimeout == 3600
Horizon == 3601
TimePoints == {0, 30, 600, 1200, 1800, LongestTimeout, Horizon}
NextTime(t) == CHOOSE u \in TimePoints :
                   u > t /\ \A v \in TimePoints : v > t => u <= v

conv_files == Sorted(conv_source)
conv_file == conv_files[conv_item]

\* A file left in the target directory by an earlier conversion.
OldOutput == File(<< "frag", "old" >>)

\* The state after construction (__init__, lines 62-93), the converter
\* about to execute `start`.
InitPortableAt(start) ==
    /\ BatchIdle
    /\ HttpIdle
    /\ PolicyIdle /\ MockIdle
    /\ interactive \in BOOLEAN
    /\ conv_source \in SUBSET FileNames
    /\ conv_target \in [FileNames -> {Absent, OldOutput}]
    /\ conv_pc = start
    /\ conv_item = 0
    /\ conv_stats = [total_files |-> 0, successful |-> 0, failed |-> 0,
                     skipped |-> 0, results |-> << >>]
    /\ conv_result = [status |-> "none"]
    /\ child = [state |-> "none", elapsed |-> 0]
    /\ conv_hist = << >>
    /\ conv_reports = << >>
    /\ conv_emitted = 0
    /\ conv_run_result = NoResult

InitPortable == InitPortableAt("convert_all_files")

\* convert_all_files, lines 299-311.
ConvFindIfcFiles ==
    /\ conv_pc = "convert_all_files"
    /\ conv_stats' = [conv_stats EXCEPT !.total_files = Len(conv_files)]
    /\ IF conv_files = << >>
       THEN conv_pc' = "returned" /\ conv_item' = conv_item
       ELSE conv_pc' = "convert_single_file" /\ conv_item' = 1
    /\ UNCHANGED << notPortable, conv_run_result, conv_reports, conv_emitted,
                    interactive, conv_source, conv_target, conv_result, child,
                    conv_hist >>

\* Mutant: the overwrite question is asked in every mode.
SkipsFile_AnyMode(exists, is_interactive, response) ==
    exists /\ response # "y"

\* convert_single_file, lines 227-230: the output exists, the mode is
\* interactive and the operator's answer is not "y".
SkipsFile(exists, is_interactive, response) ==
    exists /\ is_interactive /\ response # "y"

\* convert_single_file, lines 223-236: the overwrite question of the
\* interactive mode; any answer but "y" skips the file.
ConvCheckOverwrite ==
    /\ conv_pc = "convert_single_file"
    /\ \E response \in {"y", "n", ""} :
          IF SkipsFile(conv_target[conv_file].exists, interactive, response)
          THEN /\ conv_result' = [file |-> conv_file, status |-> "skipped"]
               /\ conv_pc' = "append"
          ELSE /\ conv_result' = conv_result
               /\ conv_pc' = "launch"
    /\ UNCHANGED << notPortable, conv_run_result, conv_reports, conv_emitted,
                    interactive, conv_source, conv_target, conv_item,
                    conv_stats, child, conv_hist >>

\* convert_single_file, lines 240-250 and 288-295: subprocess.run starts
\* the Node.js child (no timeout argument), or raises at once.
ConvLaunch ==
    /\ conv_pc = "launch"
    /\ \E launched \in BOOLEAN :
          IF launched
          THEN /\ child' = [state |-> "running", elapsed |-> 0]
               /\ conv_pc' = "wait"
               /\ conv_result' = conv_result
          ELSE /\ child' = child
               /\ conv_pc' = "append"
               /\ conv_result' = [file |-> conv_file, status |-> "failed"]
    /\ UNCHANGED << notPortable, conv_run_result, conv_reports, conv_emitted,
                    interactive, conv_source, conv_target, conv_item,
                    conv_stats, conv_hist >>

\* Time passes while subprocess.run waits for the child, lines 244-250:
\* nothing bounds the wait.
ConvTick ==
    /\ conv_pc = "wait"
    /\ child.state = "running"
    /\ child.elapsed < Horizon
    /\ child' = [child EXCEPT !.elapsed = NextTime(@)]
    /\ UNCHANGED << notPortable, conv_run_result, conv_reports, conv_emitted,
                    interactive, conv_source, conv_target, conv_pc, conv_item,
                    conv_stats, conv_result, conv_hist >>

\* What the child printed: a CONVERSION_RESULT_JSON line saying success,
\* one saying failure, one that is no JSON, or no such line.
Stdouts == {"json_success", "json_failure", "json_malformed", "no_json"}

\* convert_single_file, lines 255-286: success is read from the JSON line.
ConvStatus(returncode, stdout) ==
    IF returncode = 0 /\ stdout = "json_success" THEN "success" ELSE "failed"

\* convert_single_file, lines 252-295: the child exits and its result is
\* parsed.
ConvChildExits ==
    /\ conv_pc = "wait"
    /\ child.state = "running"
    /\ \E returncode \in {0, 1}, stdout \in Stdouts, w \in ChildWrites :
          /\ conv_target' = [conv_target EXCEPT ![conv_file] = Written(@, w)]
          /\ conv_result' = [file |-> conv_file,
                              status |-> ConvStatus(returncode, stdout)]
    /\ child' = [child EXCEPT !.state = "none"]
    /\ conv_pc' = "append"
    /\ UNCHANGED << notPortable, conv_run_result, conv_reports, conv_emitted,
                    interactive, conv_source, conv_item, conv_stats,
                    conv_hist >>

\* convert_all_files, lines 314-327.
ConvAppendResult ==
    /\ conv_pc = "append"
    /\ conv_stats' = Counted([conv_stats EXCEPT
                                 !.results = Append(@, conv_result)],
                             conv_result.status)
    /\ conv_hist' = Append(conv_hist, child.elapsed)
    /\ child' = [state |-> "none", elapsed |-> 0]
    /\ conv_result' = [status |-> "none"]
    /\ IF conv_item < Len(conv_files)
       THEN conv_item' = conv_item + 1 /\ conv_pc' = "convert_single_file"
       ELSE conv_item' = conv_item /\ conv_pc' = "print_summary"
    /\ UNCHANGED << notPortable, conv_run_result, conv_reports, conv_emitted,
                    interactive, conv_source, conv_target >>

\* convert_all_files, lines 329-333, print_summary and save_report, lines
\* 335-393.  reports_dir.mkdir (line 372) is outside the try of save_report:
\* if it raises, the exception leaves convert_all_files; a report that
\* cannot be written (lines 387-393) is logged, nothing more.
SaveReportOutcomes == {"ok", "mkdir_error", "write_error"}

ConvPrintSummary ==
    /\ conv_pc = "print_summary"
    /\ conv_emitted' = conv_emitted + 1
    /\ \E outcome \in SaveReportOutcomes :
          /\ conv_reports' = IF outcome = "ok"
                              THEN Append(conv_reports, conv_stats)
                              ELSE conv_reports
          /\ conv_pc' = IF outcome = "mkdir_error" THEN "raised" ELSE "done"
    /\ UNCHANGED << notPortable, conv_run_result, interactive, conv_source,
                    conv_target, conv_item, conv_stats, conv_result, child,
                    conv_hist >>

NextPortable ==
    \/ ConvFindIfcFiles
    \/ ConvCheckOverwrite
    \/ ConvLaunch
    \/ ConvTick
    \/ ConvChildExits
    \/ ConvAppendResult
    \/ ConvPrintSummary

SpecPortable == InitPortable /\ [][NextPortable]_vars

(***************************************************************************)
(* run() of the two converters: environment validation, the conversion,    *)
(* an operator interrupt (KeyboardInterrupt), the value returned.          *)
(***************************************************************************)
Returned(old, value, why) == [old EXCEPT !.returned = value, !.why = why]

\* Mutant: the converter script is no longer looked for.
ValidateEnvironment_NoScriptCheck(package_exists, script_exists, source_exists, target_ok) ==
    IF ~package_exists THEN "package_missing"
    ELSE IF ~source_exists THEN "source_missing"
    ELSE IF ~target_ok THEN "target_mkdir_error"
    ELSE "ok"

\* ProjectIfcConverter.validate_environment, lines 376-428: the checks in
\* the order of the code; "ok" stands for return True.
ValidateEnvironment(package_exists, script_exists, source_exists, target_ok) ==
    IF ~package_exists THEN "package_missing"
    ELSE IF ~script_exists THEN "script_missing"
    ELSE IF ~source_exists THEN "source_missing"
    ELSE IF ~target_ok THEN "target_mkdir_error"
    ELSE "ok"

\* A directory that holds files exists.
MayBeMissing(dir) == IF dir = {} THEN BOOLEAN ELSE {TRUE}

\* run, lines 826-836: validate_environment; on False run returns False.
RunValidateEnvironment(r) ==
    /\ pc[r] = "run"
    /\ \E package_exists \in BOOLEAN, script_exists \in BOOLEAN,
          source_exists \in MayBeMissing(source_dir),
          target_ok \in BOOLEAN :
          LET v == ValidateEnvironment(package_exists, script_exists,
                                       source_exists, target_ok)
              checked == [run_result[r] EXCEPT !.checks =
                            << package_exists, script_exists, source_exists,
                               target_ok >>]
          IN IF v = "ok"
             THEN /\ pc' = [pc EXCEPT ![r] = "convert_all_files"]
                  /\ run_result' = [run_result EXCEPT ![r] = checked]
             ELSE /\ pc' = [pc EXCEPT ![r] = "exited"]
                  /\ run_result' = [run_result EXCEPT
                                       ![r] = Returned(checked, "false", v)]
    /\ UNCHANGED << notBatch, source_dir, target_dir, db, database_enabled,
                    secondary_database_enabled, item, stats, cur, hist,
                    reports, emitted >>

\* find_ifc_files, line 451: stat() of a discovered file raises; the
\* exception leaves convert_all_files before line 668 and is caught by
\* run at line 845.
FindIfcFilesRaises(r) ==
    /\ pc[r] = "convert_all_files"
    /\ ifc_files # << >>
    /\ pc' = [pc EXCEPT ![r] = "exited"]
    /\ run_result' = [run_result EXCEPT
                         ![r] = Returned(@, "false", "unexpected_error")]
    /\ UNCHANGED << notBatch, source_dir, target_dir, db, database_enabled,
                    secondary_database_enabled, item, stats, cur, hist,
                    reports, emitted >>

\* Where run() is when a KeyboardInterrupt can reach it.
Interruptible ==
    {"run", "convert_all_files", "convert_single_file", "parse_result",
     "process_successful_conversion", "fallback", "select", "insert",
     "append", "print_summary"}

\* run, lines 842-844: KeyboardInterrupt is no Exception, so no handler
\* below run catches it; run logs a warning and returns False.
KeyboardInterrupt(r) ==
    /\ pc[r] \in Interruptible
    /\ pc' = [pc EXCEPT ![r] = "exited"]
    /\ run_result' = [run_result EXCEPT
                         ![r] = Returned(@, "false", "interrupted")]
    /\ UNCHANGED << notBatch, source_dir, target_dir, db, database_enabled,
                    secondary_database_enabled, item, stats, cur, hist,
                    reports, emitted >>

\* run, lines 838-840 and 845-847: convert_all_files returned and run
\* returns True, or it raised and run returns False.
RunReturn(r) ==
    /\ pc[r] \in {"done", "returned", "raised"}
    /\ pc' = [pc EXCEPT ![r] = "exited"]
    /\ run_result' = [run_result EXCEPT ![r] =
          IF pc[r] = "raised"
          THEN Returned(@, "false", "unexpected_error")
          ELSE Returned(@, "true", "completed")]
    /\ UNCHANGED << notBatch, source_dir, target_dir, db, database_enabled,
                    secondary_database_enabled, item, stats, cur, hist,
                    reports, emitted >>

\* IfcFragmentsConverter.validate_environment, lines 115-167: the checks
\* in the order of the code.  node_ok: `node --version` ran, exited 0 and
\* printed a version >= 18; modules_ok: node_modules exists or npm install
\* succeeded.
ConvValidateEnvironment(node_ok, dir_exists, script_exists, package_json, modules_ok, source_exists) ==
    IF ~node_ok THEN "node_unavailable"
    ELSE IF ~dir_exists THEN "converter_dir_missing"
    ELSE IF ~script_exists THEN "script_missing"
    ELSE IF ~package_json THEN "package_json_missing"
    ELSE IF ~modules_ok THEN "dependencies_missing"
    ELSE IF ~source_exists THEN "source_missing"
    ELSE "ok"

\* run, lines 397-412.
ConvRunValidateEnvironment ==
    /\ conv_pc = "run"
    /\ \E node_ok \in BOOLEAN, dir_exists \in BOOLEAN,
          script_exists \in BOOLEAN, package_json \in BOOLEAN,
          modules_ok \in BOOLEAN,
          source_exists \in MayBeMissing(conv_source) :
          LET v == ConvValidateEnvironment(node_ok, dir_exists,
                       script_exists, package_json, modules_ok,
                       source_exists)
              checked == [conv_run_result EXCEPT !.checks =
                            << node_ok, dir_exists, script_exists,
                               package_json, modules_ok, source_exists >>]
          IN IF v = "ok"
             THEN /\ conv_pc' = "convert_all_files"
                  /\ conv_run_result' = checked
             ELSE /\ conv_pc' = "exited"
                  /\ conv_run_result' = Returned(checked, "false", v)
    /\ UNCHANGED << notPortable, interactive, conv_source, conv_target,
                    conv_item, conv_stats, conv_result, child, conv_hist,
                    conv_reports, conv_emitted >>

\* find_ifc_files, line 213: stat() of a discovered file raises.
ConvFindIfcFilesRaises ==
    /\ conv_pc = "convert_all_files"
    /\ conv_files # << >>
    /\ conv_pc' = "raised"
    /\ UNCHANGED << notPortable, interactive, conv_source, conv_target,
                    conv_item, conv_stats, conv_result, child, conv_hist,
                    conv_reports, conv_emitted, conv_run_result >>

ConvInterruptible ==
    {"run", "convert_all_files", "convert_single_file", "launch", "wait",
     "append", "print_summary"}

\* run, lines 418-420: KeyboardInterrupt; subprocess.run kills a child
\* it is waiting for.
ConvKeyboardInterrupt ==
    /\ conv_pc \in ConvInterruptible
    /\ conv_pc' = "exited"
    /\ child' = [child EXCEPT !.state = "none"]
    /\ conv_run_result' = Returned(conv_run_result, "false", "interrupted")
    /\ UNCHANGED << notPortable, interactive, conv_source, conv_target,
                    conv_item, conv_stats, conv_result, conv_hist,
                    conv_reports, conv_emitted >>

\* run, lines 414-416 and 421-423: convert_all_files returned and run
\* returns True, or it raised and run returns False.
ConvRunReturn ==
    /\ conv_pc \in {"done", "returned", "raised"}
    /\ conv_pc' = "exited"
    /\ conv_run_result' =
          IF conv_pc = "raised"
          THEN Returned(conv_run_result, "false", "unexpected_error")
          ELSE Returned(conv_run_result, "true", "completed")
    /\ UNCHANGED << notPortable, interactive, conv_source, conv_target,
                    conv_item, conv_stats, conv_result, child, conv_hist,
                    conv_reports, conv_emitted >>

\* One of the two converters is started through run().
InitRun ==
    \/ InitAt({1}, FileNames, "run") /\ PortableIdle /\ HttpIdle
          /\ PolicyIdle /\ MockIdle
    \/ InitPortableAt("run")

NextRun ==
    \/ Next
    \/ \E r \in Runs :
          \/ RunValidateEnvironment(r)
          \/ FindIfcFilesRaises(r)
          \/ KeyboardInterrupt(r)
          \/ RunReturn(r)
    \/ NextPortable
    \/ ConvRunValidateEnvironment
    \/ ConvFindIfcFilesRaises
    \/ ConvKeyboardInterrupt
    \/ ConvRunReturn

SpecRun == InitRun /\ [][NextRun]_vars

(***************************************************************************)
(* backend/app.py: POST /api/convert (convert_ifc), one request at a time. *)
(***************************************************************************)
MaxRequests == 2

\* Bytes per MB, app.py line 176.
MB == 1048576

\* Upload sizes on both sides of the tier thresholds.
SizeSamples == {0, 20 * MB, 20 * MB + 1, 50 * MB, 50 * MB + 1}

\* The names a client can give its upload.
UploadNames == {"", "notes.txt", "model.ifc"}

\* output_filename, lines 169-172.
OutputName(filename) == "model.frag"

\* Mutant: the medium and the large tier have changed places.
ConvertTier_Swapped(size) ==
    IF size > 50 * MB THEN [memory |-> 4096, timeout |-> 1800]
    ELSE IF size > 20 * MB THEN [memory |-> 8192, timeout |-> 3600]
    ELSE [memory |-> 0, timeout |-> 600]

\* convert_ifc, lines 178-204: the tier chosen from the size of the upload
\* (file_size_mb > 50, > 20, else); memory 0 stands for no
\* --max-old-space-size flag.
ConvertTier(size) ==
    IF size > 50 * MB THEN [memory |-> 8192, timeout |-> 3600]
    ELSE IF size > 20 * MB THEN [memory |-> 4096, timeout |-> 1800]
    ELSE [memory |-> 0, timeout |-> 600]

JsonResponse(code, success) ==
    [code |-> code, json |-> TRUE, success |-> success]

\* The view returned None: Flask answers 500 with an HTML error page.
NoResponse == [code |-> 500, json |-> FALSE, success |-> "absent"]

\* The locals of a view; launches and raised count the calls of
\* subprocess.run and those of them that raised no timeout, before holds
\* the names present in FRAGMENTS_DIR when /api/convert-subprocess
\* received the request (ghost).
InitLoc == [temp |-> "none", memory |-> 0, timeout |-> 0,
            returncode |-> 0, launches |-> 0, raised |-> 0, before |-> {}]

InitHttp ==
    /\ BatchIdle
    /\ PortableIdle
    /\ HttpIdle
    /\ PolicyIdle /\ MockIdle

\* A client posts to /api/convert.
HttpReceive ==
    /\ http_pc = "idle"
    /\ http_n < MaxRequests
    /\ \E has_file \in BOOLEAN, filename \in UploadNames,
          size \in SizeSamples :
          http_req' = [has_file |-> has_file, filename |-> filename,
                       size |-> size]
    /\ http_n' = http_n + 1
    /\ http_loc' = InitLoc
    /\ http_pc' = "validate"
    /\ UNCHANGED << notHttp, fragments_dir, temp_files, http_resp,
                    xfrg_output, xfrg_result >>

\* convert_ifc, lines 152-160: the three 400 answers.
ValidUpload(req) == req.has_file /\ req.filename = "model.ifc"

HttpValidate ==
    /\ http_pc = "validate"
    /\ IF ValidUpload(http_req)
       THEN http_pc' = "save" /\ http_resp' = http_resp
       ELSE http_pc' = "idle" /\ http_resp' = [code |-> 400, json |-> TRUE,
                                                success |-> "absent"]
    /\ UNCHANGED << notHttp, fragments_dir, temp_files, http_n, http_req,
                    http_loc, xfrg_output, xfrg_result >>

\* Mutant: the handler of line 273 returns nothing.
OuterExcept_Silent(loc, temps, n) == [temps |-> temps, resp |-> NoResponse]

\* The handler of line 273-280: the temporary file is removed and a JSON
\* error returned only if temp_ifc_path was assigned and the file exists;
\* otherwise the view falls off its end.
OuterExcept(loc, temps, n) ==
    IF loc.temp = "assigned" /\ n \in temps
    THEN [temps |-> temps \ {n}, resp |-> JsonResponse(500, "false")]
    ELSE [temps |-> temps, resp |-> NoResponse]

\* convert_ifc, lines 162-204: the upload is saved to a temporary file
\* (delete=False) and the tier chosen.  NamedTemporaryFile, file.save or
\* stat can raise.
HttpSaveTemp ==
    /\ http_pc = "save"
    /\ \E outcome \in {"ok", "create_error", "save_error", "stat_error"} :
          LET temps == IF outcome = "create_error" THEN temp_files
                       ELSE temp_files \cup {http_n}
              tier == ConvertTier(http_req.size)
              loc == [http_loc EXCEPT
                        !.temp = IF outcome \in {"ok", "stat_error"}
                                 THEN "assigned" ELSE "unassigned",
                        !.memory = IF outcome = "ok" THEN tier.memory ELSE @,
                        !.timeout = IF outcome = "ok" THEN tier.timeout ELSE @]
              e == OuterExcept(loc, temps, http_n)
          IN /\ http_loc' = loc
             /\ IF outcome = "ok"
                THEN /\ temp_files' = temps
                     /\ http_pc' = "run"
                     /\ http_resp' = http_resp
                ELSE /\ temp_files' = e.temps
                     /\ http_pc' = "idle"
                     /\ http_resp' = e.resp
    /\ UNCHANGED << notHttp, fragments_dir, http_n, http_req, xfrg_output,
                    xfrg_result >>

\* How a subprocess.run(cmd, timeout=timeout) of the endpoint can end.
RunOutcomes == {"exited", "timeout", "exception"}

\* convert_ifc, lines 221-245: the worker runs; on an exception other than
\* a timeout it is run again without captured output (lines 232-245).
HttpRunWorker ==
    /\ http_pc \in {"run", "run_uncaptured"}
    /\ \E outcome \in RunOutcomes, returncode \in {0, 1},
          w \in ChildWrites :
          LET loc == [http_loc EXCEPT
                        !.launches = @ + 1,
                        !.returncode = returncode,
                        !.raised = IF outcome = "exception" THEN @ + 1 ELSE @]
              e == OuterExcept(loc, temp_files, http_n)
          IN /\ outcome = "exception" => w = Absent
             /\ fragments_dir' = [fragments_dir EXCEPT
                    ![OutputName(http_req.filename)] = Written(@, w)]
             /\ http_loc' = loc
             /\ CASE outcome = "exited" ->
                       /\ http_pc' = "finish"
                       /\ temp_files' = temp_files
                       /\ http_resp' = http_resp
                  [] outcome = "timeout" ->
                       /\ http_pc' = "idle"
                       /\ temp_files' = temp_files \ {http_n}
                       /\ http_resp' = JsonResponse(500, "false")
                  [] outcome = "exception" /\ http_pc = "run" ->
                       /\ http_pc' = "run_uncaptured"
                       /\ temp_files' = temp_files
                       /\ http_resp' = http_resp
                  [] OTHER ->
                       /\ http_pc' = "idle"
                       /\ temp_files' = e.temps
                       /\ http_resp' = e.resp
    /\ UNCHANGED << notHttp, http_n, http_req, xfrg_output, xfrg_result >>

\* convert_ifc, line 255: what the endpoint takes for a success.
HttpAccepted(returncode, out) == returncode = 0 /\ out.exists

\* convert_ifc, lines 247-280: the temporary file is removed and the
\* answer built; a stat() that raises at line 257 reaches the handler of
\* line 273 with the temporary file already gone.
HttpFinish ==
    /\ http_pc = "finish"
    /\ temp_files' = temp_files \ {http_n}
    /\ \E stat_error \in BOOLEAN :
          http_resp' =
             IF HttpAccepted(http_loc.returncode,
                             fragments_dir[OutputName(http_req.filename)])
             THEN IF stat_error THEN NoResponse
                  ELSE JsonResponse(200, "true")
             ELSE JsonResponse(500, "false")
    /\ http_pc' = "idle"
    /\ UNCHANGED << notHttp, fragments_dir, http_n, http_req, http_loc,
                    xfrg_output, xfrg_result >>

(***************************************************************************)
(* backend/subprocess_converter.py: XFRGSubprocessConverter.               *)
(***************************************************************************)
\* convert_ifc_file, line 98: what the converter takes for a success.
XfrgAccepted(returncode, out) == returncode = 0 /\ out.exists

\* convert_ifc_file, lines 32-148, timeout = 600 by default.
XfrgConvertIfcFile ==
    /\ \E input_exists \in BOOLEAN, outcome \in RunOutcomes,
          returncode \in {0, 1}, w \in ChildWrites :
          LET out == Written(xfrg_output, w)
          IN /\ (~input_exists \/ outcome = "exception") => w = Absent
             /\ xfrg_output' = out
             /\ xfrg_result' =
                   IF ~input_exists
                   THEN [success |-> "false", why |-> "input_not_found",
                         returncode |-> 0]
                   ELSE IF outcome = "timeout"
                   THEN [success |-> "false", why |-> "timeout",
                         returncode |-> 0]
                   ELSE IF outcome = "exception"
                   THEN [success |-> "false", why |-> "exception",
                         returncode |-> 0]
                   ELSE IF XfrgAccepted(returncode, out)
                   THEN [success |-> "true", why |-> "converted",
                         returncode |-> returncode]
                   ELSE [success |-> "false", why |-> "failed",
                         returncode |-> returncode]
    /\ UNCHANGED << notHttp, fragments_dir, temp_files, http_pc, http_n,
                    http_req, http_loc, http_resp >>

NextHttp ==
    \/ HttpReceive
    \/ HttpValidate
    \/ HttpSaveTemp
    \/ HttpRunWorker
    \/ HttpFinish
    \/ XfrgConvertIfcFile

SpecHttp == InitHttp /\ [][NextHttp]_vars

(***************************************************************************)
(* backend/app.py: the size tiers of /api/convert and                      *)
(* /api/convert-subprocess, applied to two upload sizes.                   *)
(***************************************************************************)
\* Upload sizes on both sides of every threshold of the two endpoints.
PolicySizes ==
    {0, 10 * MB, 10 * MB + 1, 20 * MB, 20 * MB + 1, 50 * MB, 50 * MB + 1,
     100 * MB, 100 * MB + 1}

\* convert_ifc_subprocess, lines 364-373: the timeout chosen from
\* file_size_mb (> 100, > 50, > 10, else).
SubprocessTimeout(size) ==
    IF size > 100 * MB THEN 3600
    ELSE IF size > 50 * MB THEN 1800
    ELSE IF size > 10 * MB THEN 1200
    ELSE 600

InitPolicy ==
    /\ BatchIdle
    /\ PortableIdle
    /\ HttpIdle
    /\ MockIdle
    /\ policy_in \in PolicySizes \X PolicySizes
    /\ policy_out = [endpoint |-> "none"]

\* convert_ifc, lines 174-204, for each of the two sizes.
SelectConvertPolicy ==
    /\ policy_out.endpoint = "none"
    /\ policy_out' = [endpoint |-> "convert",
                      first |-> ConvertTier(policy_in[1]),
                      second |-> ConvertTier(policy_in[2])]
    /\ UNCHANGED << notPolicy, policy_in >>

\* convert_ifc_subprocess, lines 364-375, for each of the two sizes.
SelectSubprocessPolicy ==
    /\ policy_out.endpoint = "none"
    /\ policy_out' = [endpoint |-> "convert-subprocess",
                      first |-> [timeout |-> SubprocessTimeout(policy_in[1])],
                      second |-> [timeout |-> SubprocessTimeout(policy_in[2])]]
    /\ UNCHANGED << notPolicy, policy_in >>

NextPolicy ==
    \/ SelectConvertPolicy
    \/ SelectSubprocessPolicy

SpecPolicy == InitPolicy /\ [][NextPolicy]_vars

(***************************************************************************)
(* The three launchers of a worker child in one specification: either a    *)
(* ProjectIfcConverter without sinks runs over a directory of one file     *)
(* while the server is not started, or the server answers /api/convert;    *)
(* XFRGSubprocessConverter is called in both.                              *)
(***************************************************************************)
\* app.run (app.py line 471) has not been called.
HttpOff ==
    /\ fragments_dir = [n \in OutputNames |-> Absent]
    /\ temp_files = {}
    /\ http_pc = "off"
    /\ http_n = 0
    /\ http_req = [has_file |-> FALSE, filename |-> "", size |-> 0]
    /\ http_loc = InitLoc
    /\ http_resp = [code |-> 0, json |-> FALSE, success |-> "absent"]
    /\ xfrg_output = Absent
    /\ xfrg_result = [success |-> "absent"]

InitLaunch ==
    \/ /\ InitWith({1}, {1})
       /\ ~database_enabled[1] /\ ~secondary_database_enabled[1]
       /\ PortableIdle
       /\ HttpOff
       /\ PolicyIdle /\ MockIdle
    \/ InitHttp

NextLaunch ==
    \/ \E r \in Runs :
          \/ FindIfcFiles(r)
          \/ RunPortableConverter(r)
          \/ ParseResult(r)
          \/ ProcessSuccessfulConversion(r)
          \/ FallbackMockConversion(r)
          \/ AppendResult(r)
          \/ PrintSummary(r)
    \/ NextHttp

SpecLaunch == InitLaunch /\ [][NextLaunch]_vars

(***************************************************************************)
(* run() called more than once on one ProjectIfcConverter.                 *)
(***************************************************************************)
\* The records one converter object collects before it is left alone.
MaxRecords == 2

\* run() is called again on an object whose run() has returned True,
\* lines 826-840: the locals of the earlier call are gone; self.stats is
\* the dict made in __init__ (lines 336-349), which neither run nor
\* convert_all_files (lines 663-668) replaces.
RunAgain(r) ==
    /\ pc[r] = "exited"
    /\ run_result[r].returned = "true"
    /\ Len(stats[r].results) < MaxRecords
    /\ pc' = [pc EXCEPT ![r] = "run"]
    /\ run_result' = [run_result EXCEPT ![r] = NoResult]
    /\ item' = [item EXCEPT ![r] = 0]
    /\ cur' = [cur EXCEPT ![r] = InitCur]
    /\ hist' = [hist EXCEPT ![r] = << >>]
    /\ UNCHANGED << notBatch, source_dir, target_dir, db, database_enabled,
                    secondary_database_enabled, stats, reports, emitted >>

InitRerun ==
    InitAt({1}, {1}, "run") /\ PortableIdle /\ HttpIdle /\ PolicyIdle /\ MockIdle

NextRerun ==
    \/ Next
    \/ \E r \in Runs :
          \/ RunValidateEnvironment(r)
          \/ FindIfcFilesRaises(r)
          \/ KeyboardInterrupt(r)
          \/ RunReturn(r)
          \/ RunAgain(r)

SpecRerun == InitRerun /\ [][NextRerun]_vars

(***************************************************************************)
(* backend/app.py: POST /api/convert-subprocess (convert_ifc_subprocess),  *)
(* served by the same process as /api/convert, one request at a time.      *)
(***************************************************************************)
\* output_filename, lines 325-328.
SubprocessOutputName(filename) == "model_subprocess.frag"

\* The names present in directory dir.
Present(dir) == { n \in DOMAIN dir : dir[n].exists }

\* A client posts to /api/convert-subprocess.
SubprocessReceive ==
    /\ http_pc = "idle"
    /\ http_n < MaxRequests
    /\ \E has_file \in BOOLEAN, filename \in UploadNames,
          size \in SizeSamples :
          http_req' = [has_file |-> has_file, filename |-> filename,
                       size |-> size]
    /\ http_n' = http_n + 1
    /\ http_loc' = [InitLoc EXCEPT !.before = Present(fragments_dir)]
    /\ http_pc' = "subprocess_validate"
    /\ UNCHANGED << notHttp, fragments_dir, temp_files, http_resp,
                    xfrg_output, xfrg_result >>

\* convert_ifc_subprocess, lines 287-316: the three 400 answers, and the
\* 500 answer when frag_convert/ifc_fragments_converter.py is missing.
SubprocessValidate ==
    /\ http_pc = "subprocess_validate"
    /\ \E script_exists \in BOOLEAN :
          IF ~ValidUpload(http_req)
          THEN /\ http_pc' = "idle"
               /\ http_resp' = [code |-> 400, json |-> TRUE,
                                success |-> "absent"]
          ELSE IF ~script_exists
          THEN /\ http_pc' = "idle"
               /\ http_resp' = JsonResponse(500, "false")
          ELSE /\ http_pc' = "subprocess_save"
               /\ http_resp' = http_resp
    /\ UNCHANGED << notHttp, fragments_dir, temp_files, http_n, http_req,
                    http_loc, xfrg_output, xfrg_result >>

\* The handler of lines 454-463: the temporary file is removed if
\* temp_ifc_path was assigned and the file exists, the output path is
\* removed if output_path was assigned and it exists, and a JSON error is
\* returned.
SubprocessExcept(loc, temps, n, dir, own) ==
    [temps |-> IF loc.temp = "assigned" THEN temps \ {n} ELSE temps,
     dir |-> IF loc.temp = "assigned" THEN [dir EXCEPT ![own] = Absent]
             ELSE dir,
     resp |-> JsonResponse(500, "false")]

\* convert_ifc_subprocess, lines 318-345: the upload is saved to a
\* temporary file (delete=False), the output path computed and the upload
\* copied into a temporary directory.  temp_ifc_path is assigned after
\* file.save (line 321), output_path at line 328.
SubprocessSaveTemp ==
    /\ http_pc = "subprocess_save"
    /\ \E outcome \in {"ok", "create_error", "save_error", "copy_error"} :
          LET temps == IF outcome = "create_error" THEN temp_files
                       ELSE temp_files \cup {http_n}
              loc == [http_loc EXCEPT
                        !.temp = IF outcome \in {"ok", "copy_error"}
                                 THEN "assigned" ELSE "unassigned",
                        !.timeout = IF outcome = "ok"
                                    THEN SubprocessTimeout(http_req.size)
                                    ELSE @]
              e == SubprocessExcept(loc, temps, http_n, fragments_dir,
                       SubprocessOutputName(http_req.filename))
          IN /\ http_loc' = loc
             /\ IF outcome = "ok"
                THEN /\ temp_files' = temps
                     /\ fragments_dir' = fragments_dir
                     /\ http_pc' = "subprocess_run"
                     /\ http_resp' = http_resp
                ELSE /\ temp_files' = e.temps
                     /\ fragments_dir' = e.dir
                     /\ http_pc' = "idle"
                     /\ http_resp' = e.resp
    /\ UNCHANGED << notHttp, http_n, http_req, xfrg_output, xfrg_result >>

\* convert_ifc_subprocess, lines 347-398: the portable converter runs with
\* FRAGMENTS_DIR as its target directory and writes <stem>.frag there; a
\* timeout and any other exception return at lines 387-398, before the
\* temporary file is removed at line 433.
SubprocessRunWorker ==
    /\ http_pc = "subprocess_run"
    /\ \E outcome \in RunOutcomes, returncode \in {0, 1},
          w \in ChildWrites :
          /\ outcome = "exception" => w = Absent
          /\ fragments_dir' = [fragments_dir EXCEPT
                 ![OutputName(http_req.filename)] = Written(@, w)]
          /\ http_loc' = [http_loc EXCEPT
                 !.launches = @ + 1,
                 !.returncode = returncode,
                 !.raised = IF outcome = "exception" THEN @ + 1 ELSE @]
          /\ IF outcome = "exited"
             THEN http_pc' = "subprocess_collect" /\ http_resp' = http_resp
             ELSE http_pc' = "idle" /\ http_resp' = JsonResponse(500, "false")
    /\ UNCHANGED << notHttp, temp_files, http_n, http_req, xfrg_output,
                    xfrg_result >>

\* Lines 406-427: the first of possible_outputs that exists is renamed to
\* output_path unless it is output_path; for the upload model.ifc the
\* first two candidates are both model.frag.
Renamed(dir, from, to) ==
    IF dir[from].exists /\ from # to
    THEN [dir EXCEPT ![from] = Absent, ![to] = dir[from]]
    ELSE dir

\* Line 435: what the endpoint takes for a success.
SubprocessAccepted(returncode, out) == returncode = 0 /\ out.exists

\* convert_ifc_subprocess, lines 400-463: the output is looked for and
\* renamed, the temporary file removed and the answer built.  rename (line
\* 427) and stat (line 437) can raise and reach the handler of line 454.
SubprocessCollect ==
    /\ http_pc = "subprocess_collect"
    /\ \E rename_ok \in BOOLEAN, stat_ok \in BOOLEAN :
          LET from == OutputName(http_req.filename)
              own == SubprocessOutputName(http_req.filename)
              renamed == Renamed(fragments_dir, from, own)
              e == SubprocessExcept(http_loc, temp_files, http_n,
                                    IF rename_ok THEN renamed
                                    ELSE fragments_dir, own)
          IN /\ (~rename_ok => fragments_dir[from].exists)
             /\ (~stat_ok =>
                   /\ rename_ok
                   /\ SubprocessAccepted(http_loc.returncode, renamed[own]))
             /\ IF rename_ok /\ stat_ok
                THEN /\ fragments_dir' = renamed
                     /\ temp_files' = temp_files \ {http_n}
                     /\ http_resp' =
                           IF SubprocessAccepted(http_loc.returncode,
                                                 renamed[own])
                           THEN JsonResponse(200, "true")
                           ELSE JsonResponse(500, "false")
                ELSE /\ fragments_dir' = e.dir
                     /\ temp_files' = e.temps
                     /\ http_resp' = e.resp
    /\ http_pc' = "idle"
    /\ UNCHANGED << notHttp, http_n, http_req, http_loc, xfrg_output,
                    xfrg_result >>

NextSubprocess ==
    \/ HttpReceive
    \/ HttpValidate
    \/ HttpSaveTemp
    \/ HttpRunWorker
    \/ HttpFinish
    \/ SubprocessReceive
    \/ SubprocessValidate
    \/ SubprocessSaveTemp
    \/ SubprocessRunWorker
    \/ SubprocessCollect

SpecSubprocess == InitHttp /\ [][NextSubprocess]_vars

(***************************************************************************)
(* _fallback_mock_conversion, lines 552-559, and calculate_file_hash,      *)
(* lines 171-177, applied to the bytes of two IFC files.                   *)
(***************************************************************************)
\* Input lengths around the 1 KB cut of line 556.
MockLengths == {0, 1, KB - 1, KB, KB + 1, KB + 2}

\* An input of n bytes: byte a up to the cut, byte b after it.
MockInput(n, a, b) == [i \in 1..n |-> IF i <= KB THEN a ELSE b]

MockInputs ==
    { MockInput(n, a, b) : n \in MockLengths, a \in {"x", "y"},
                           b \in {"x", "y"} }

InitMock ==
    /\ BatchIdle
    /\ PortableIdle
    /\ HttpIdle
    /\ PolicyIdle
    /\ mock_in \in MockInputs \X MockInputs
    /\ mock_out = [made |-> FALSE]

\* The fallback reads each input, writes its mock fragment (lines
\* 552-559), and store_fragment hashes what was written (line 183).
MakeMockFragments ==
    /\ ~mock_out.made
    /\ LET first == MockFragmentData(mock_in[1])
           second == MockFragmentData(mock_in[2])
       IN mock_out' = [made |-> TRUE, first |-> first, second |-> second,
                       first_hash |-> calculate_file_hash(first),
                       second_hash |-> calculate_file_hash(second)]
    /\ UNCHANGED << notMock, mock_in >>

NextMock == MakeMockFragments

SpecMock == InitMock /\ [][NextMock]_vars

(***************************************************************************)
(* What the claims speak about.                                            *)
(***************************************************************************)
\* The items run r has finished, each with what happened (hist) and the
\* result record appended to stats['results'].
Done(r) == 1..Len(hist[r])
RecordOf(r, i) == stats[r].results[i]

\* What happened at the secondary sink for an item with history h.
SecondaryOutcome(h) ==
    IF h.calls["secondary"] = 0 THEN "not_attempted"
    ELSE IF h.db_stored_secondary THEN "stored" ELSE "failed"

\* print_summary, lines 770-785: the DB2 mark shown for a result record.
SummarySecondary(r, result) ==
    LET attempted ==
            /\ result.status = "success"
            /\ IF database_enabled[r] THEN result.db_stored ELSE TRUE
    IN IF attempted
       THEN IF result.db_stored_secondary THEN "stored" ELSE "failed"
       ELSE "not_attempted"

\* Run r takes a step of store_fragment's existence check.
SelectStep(r) ==
    /\ pc[r] = "select"
    /\ pc'[r] # pc[r] \/ cur'[r] # cur[r]

\* The secondary counters of run r.
SecondaryCounters(r) ==
    << stats[r].db_stored_secondary, stats[r].db_failed_secondary >>
SinkCounters(r) ==
    << stats[r].db_stored, stats[r].db_failed,
       stats[r].db_stored_secondary, stats[r].db_failed_secondary >>

(***************************************************************************)
(* C1: with the secondary sink enabled, the secondary store_fragment is    *)
(* called for an item if and only if the conversion produced an artifact   *)
(* (worker or fallback) and the primary sink is disabled or the primary    *)
(* store_fragment returned True (stored or already present).               *)
(***************************************************************************)
C1_SecondaryAttemptedIff ==
    \A r \in Runs : secondary_database_enabled[r] =>
        \A i \in Done(r) :
            LET h == hist[r][i]
            IN (h.calls["secondary"] > 0) <=>
                   /\ h.producer \in {"portable", "mock"}
                   /\ \/ ~database_enabled[r]
                      \/ h.why["primary"] \in {"stored", "present"}

C1_Witness ==
    \E r \in Runs : \E i \in Done(r) :
        /\ secondary_database_enabled[r] /\ database_enabled[r]
        /\ hist[r][i].why["primary"] = "present"
        /\ hist[r][i].calls["secondary"] = 1

(***************************************************************************)
(* C2: while the item of a run has a failed primary store (primary sink    *)
(* enabled, store_fragment returned False), no step of the run calls the   *)
(* secondary store_fragment or changes db_stored_secondary or              *)
(* db_failed_secondary.                                                    *)
(***************************************************************************)
PrimaryFailed(r) ==
    database_enabled[r] /\ cur[r].why["primary"] \in {"error", "duplicate"}

C2_FailedPrimarySkipsSecondary ==
    [][\A r \in Runs :
          (PrimaryFailed(r) \/ PrimaryFailed(r)') =>
              /\ SecondaryCounters(r)' = SecondaryCounters(r)
              /\ cur'[r].calls["secondary"] = 0
              /\ cur'[r].sink # "secondary"]_vars

C2_Witness ==
    \E r \in Runs : \E i \in Done(r) :
        /\ secondary_database_enabled[r] /\ database_enabled[r]
        /\ hist[r][i].why["primary"] = "error"
        /\ hist[r][i].calls["secondary"] = 0

(***************************************************************************)
(* C3 as stated: the result record by itself tells a skipped secondary     *)
(* store from a stored and from a failed one: two records (of any runs     *)
(* with the secondary sink enabled) with the same status and sink flags    *)
(* have the same secondary outcome.                                        *)
(***************************************************************************)
SinkFlags(result) ==
    << result.status, result.db_stored, result.db_stored_secondary >>

C3_RecordAloneTellsOutcome ==
    \A r1, r2 \in Runs :
        secondary_database_enabled[r1] /\ secondary_database_enabled[r2] =>
            \A i \in Done(r1), j \in Done(r2) :
                SinkFlags(RecordOf(r1, i)) = SinkFlags(RecordOf(r2, j)) =>
                    SecondaryOutcome(hist[r1][i]) = SecondaryOutcome(hist[r2][j])

(***************************************************************************)
(* C3 amended: the record stores db_stored_secondary = False for a skipped *)
(* secondary store; the three-way status is what print_summary derives     *)
(* from the record's status and db_stored and the run's database_enabled,  *)
(* and that derived status is the secondary outcome of the item.           *)
(***************************************************************************)
C3_SummaryTellsOutcome ==
    \A r \in Runs : secondary_database_enabled[r] =>
        \A i \in Done(r) :
            SummarySecondary(r, RecordOf(r, i)) = SecondaryOutcome(hist[r][i])

C3_Witness ==
    \E r1, r2 \in Runs : \E i \in Done(r1), j \in Done(r2) :
        /\ secondary_database_enabled[r1] /\ secondary_database_enabled[r2]
        /\ database_enabled[r1]
        /\ hist[r1][i].why["primary"] = "error"
        /\ SummarySecondary(r1, RecordOf(r1, i)) = "not_attempted"
        /\ hist[r2][j].why["secondary"] = "error"
        /\ SummarySecondary(r2, RecordOf(r2, j)) = "failed"
        /\ SinkFlags(RecordOf(r1, i)) = SinkFlags(RecordOf(r2, j))

(***************************************************************************)
(* C4: in every reachable state, whatever store_fragment calls of one or   *)
(* several runs have been interleaved, a sink holds at most one row per    *)
(* content hash.                                                           *)
(***************************************************************************)
C4_OneRowPerHash ==
    \A s \in Sinks : \A i, j \in 1..Len(db[s]) :
        db[s][i].file_hash = db[s][j].file_hash => i = j

C4_Witness ==
    \E r1, r2 \in Runs : \E s \in Sinks :
        /\ r1 # r2
        /\ Len(hist[r1]) > 0 /\ Len(hist[r2]) > 0
        /\ hist[r1][1].why[s] = "stored"
        /\ hist[r2][1].why[s] = "duplicate"
        /\ hist[r1][1].file_hash = hist[r2][1].file_hash

(***************************************************************************)
(* C5: a store_fragment call that finds the hash of its file already in    *)
(* the sink, and meets no I/O or connection error, returns True            *)
(* (already present) without inserting: the rows of the sink are unchanged *)
(* and the call is counted as stored.                                      *)
(***************************************************************************)
AlreadyStored(r) ==
    /\ output_file(r).exists
    /\ \E i \in 1..Len(db[cur[r].sink]) :
          db[cur[r].sink][i].file_hash
              = calculate_file_hash(output_file(r).data)

C5_StoreIdempotent ==
    [][\A r \in Runs :
          (SelectStep(r) /\ AlreadyStored(r)
               /\ cur'[r].why[cur[r].sink] # "error") =>
              /\ cur'[r].why[cur[r].sink] = "present"
              /\ IF cur[r].sink = "primary"
                 THEN /\ cur'[r].db_stored_primary
                      /\ stats'[r].db_stored = stats[r].db_stored + 1
                      /\ stats'[r].db_failed = stats[r].db_failed
                 ELSE /\ cur'[r].db_stored_secondary
                      /\ stats'[r].db_stored_secondary
                             = stats[r].db_stored_secondary + 1
                      /\ stats'[r].db_failed_secondary
                             = stats[r].db_failed_secondary
              /\ db' = db]_vars

C5_Witness ==
    \E r \in Runs : \E i, j \in Done(r) : \E s \in Sinks :
        /\ i < j
        /\ hist[r][i].why[s] = "stored"
        /\ hist[r][j].why[s] = "present"
        /\ Len(db[s]) = 1

(***************************************************************************)
(* C6 as stated: when runs store identical content in one sink             *)
(* concurrently, every call that meets no I/O or connection error reports  *)
(* success (stored or already present); none reports a store failure.      *)
(***************************************************************************)
C6_ConcurrentPutsSucceed ==
    \A r \in Runs : \A i \in Done(r) : \A s \in Sinks :
        (hist[r][i].calls[s] > 0 /\ hist[r][i].why[s] # "error") =>
            IF s = "primary" THEN hist[r][i].db_stored_primary
                             ELSE hist[r][i].db_stored_secondary

(***************************************************************************)
(* C9 as stated: _fallback_mock_conversion runs for an item only after     *)
(* the worker attempt ended in failure, never for an item whose worker     *)
(* attempt was accepted as success, and at most once per item.             *)
(***************************************************************************)
C9_FallbackOnlyAfterFailure ==
    \A r \in Runs :
        /\ cur[r].fallbacks <= 1
        /\ cur[r].fallbacks > 0 => ~cur[r].accepted
        /\ pc[r] = "fallback" => ~cur[r].accepted

(***************************************************************************)
(* C10: an item whose worker attempt failed and whose fallback failed too  *)
(* ends with status failed after exactly one fallback call; no             *)
(* store_fragment call is made for it and no step of the run changes       *)
(* db_stored, db_failed, db_stored_secondary or db_failed_secondary while  *)
(* it is the current item.                                                 *)
(***************************************************************************)
BothFailed(r) ==
    /\ ~cur[r].accepted
    /\ cur[r].fallbacks > 0
    /\ cur[r].producer = "none"

C10_BothFailedIsFailedUnstored ==
    /\ [](\A r \in Runs : \A i \in Done(r) :
            (~hist[r][i].accepted /\ hist[r][i].producer = "none") =>
                /\ RecordOf(r, i).status = "failed"
                /\ hist[r][i].fallbacks = 1
                /\ \A s \in Sinks : hist[r][i].calls[s] = 0)
    /\ [][\A r \in Runs :
            (BothFailed(r) \/ BothFailed(r)') =>
                /\ SinkCounters(r)' = SinkCounters(r)
                /\ pc'[r] \notin {"select", "insert"}]_vars

C10_Witness ==
    \E r \in Runs : \E i \in Done(r) :
        /\ hist[r][i].worker = "timeout"
        /\ hist[r][i].fallbacks = 1
        /\ RecordOf(r, i).status = "failed"
        /\ stats[r].failed = 1

(***************************************************************************)
(* C8 as stated: every worker invocation is bounded by a timeout: no       *)
(* launcher, IfcFragmentsConverter.convert_single_file included, is still  *)
(* waiting for a child that has run longer than the longest timeout any    *)
(* launcher selects.                                                       *)
(***************************************************************************)
C8_ChildBoundedByTimeout ==
    (conv_pc = "wait" /\ child.state = "running") =>
        child.elapsed <= LongestTimeout

\* C7: a worker attempt is reported as a success only if the child exited
\* with status 0 and the output artifact exists and is not empty, in the batch
\* orchestrator, in the HTTP convert endpoint and in
\* XFRGSubprocessConverter.convert_ifc_file alike.
C7_SuccessNeedsNonEmptyOutput ==
    /\ \A r \in Runs :
          cur[r].accepted =>
             /\ cur[r].worker = "zero"
             /\ (pc[r] = "process_successful_conversion" =>
                    output_file(r).exists /\ Len(output_file(r).data) > 0)
    /\ (http_pc = "idle" /\ http_resp.success = "true") =>
          /\ http_loc.returncode = 0
          /\ fragments_dir[OutputName(http_req.filename)].exists
          /\ Len(fragments_dir[OutputName(http_req.filename)].data) > 0
    /\ xfrg_result.success = "true" =>
          /\ xfrg_result.returncode = 0
          /\ xfrg_output.exists
          /\ Len(xfrg_output.data) > 0

(***************************************************************************)
(* C11: every record in a sink whose content is a fallback (mock)          *)
(* artifact carries the metadata that marks it degraded, converter_version *)
(* 'mock_converter_fallback'; no mock artifact is stored with the metadata *)
(* of a primary-converted artifact.                                        *)
(***************************************************************************)
\* The bytes are what _fallback_mock_conversion writes (line 556).
IsMockData(data) ==
    Len(data) > 0 /\ data[1] = "MOCK_FRAGMENT_HEADER\n"

C11_MockRowsAreMarked ==
    \A s \in Sinks : \A i \in 1..Len(db[s]) :
        IsMockData(db[s][i].fragment_data) =>
            db[s][i].conversion_metadata.converter_version
                = "mock_converter_fallback"

(***************************************************************************)
(* C12: the resource policy is monotonic in the input size: for sizes      *)
(* s1 < s2 the timeout chosen for s1 is at most the timeout chosen for s2, *)
(* in /api/convert and in /api/convert-subprocess, and the memory ceiling  *)
(* /api/convert chooses for s1 is at most the one it chooses for s2 (0     *)
(* stands for no --max-old-space-size flag, the default ceiling).          *)
(***************************************************************************)
C12_PolicyMonotonic ==
    (policy_out.endpoint # "none" /\ policy_in[1] < policy_in[2]) =>
        /\ policy_out.first.timeout <= policy_out.second.timeout
        /\ policy_out.endpoint = "convert" =>
               policy_out.first.memory <= policy_out.second.memory

C12_Witness ==
    /\ policy_in = << 20 * MB + 1, 50 * MB + 1 >>
    /\ policy_out.endpoint = "convert"
    /\ policy_out.first = [memory |-> 4096, timeout |-> 1800]
    /\ policy_out.second = [memory |-> 8192, timeout |-> 3600]

(***************************************************************************)
(* C13 as stated: with both sinks configured, an item whose worker         *)
(* succeeded and whose primary store failed ends with a terminal status    *)
(* (PartiallyStored) distinct from the status of an item stored in all     *)
(* configured sinks.                                                       *)
(***************************************************************************)
\* Item history h of run r: worker succeeded, primary store failed.
WorkerOkPrimaryFailed(r, h) ==
    /\ database_enabled[r] /\ secondary_database_enabled[r]
    /\ h.worker = "zero" /\ h.accepted
    /\ h.why["primary"] \in {"error", "duplicate"}

\* Item history h of run r: stored in both configured sinks.
StoredInAllSinks(r, h) ==
    /\ database_enabled[r] /\ secondary_database_enabled[r]
    /\ h.db_stored_primary /\ h.db_stored_secondary

C13_PartialStatusDistinct ==
    \A r \in Runs : \A i, j \in Done(r) :
        (WorkerOkPrimaryFailed(r, hist[r][i])
            /\ StoredInAllSinks(r, hist[r][j])) =>
                RecordOf(r, i).status # RecordOf(r, j).status

(***************************************************************************)
(* C13 amended: with both sinks configured, when the worker succeeds and   *)
(* the primary store fails, the secondary attempt is skipped and the       *)
(* item's status is 'success', the same status as that of an item stored   *)
(* in all sinks; the record differs from the latter only in its flags:     *)
(* db_stored and db_stored_secondary are both False, against both True.    *)
(***************************************************************************)
C13_PartialIsSuccessWithFlags ==
    \A r \in Runs : \A i \in Done(r) :
        /\ WorkerOkPrimaryFailed(r, hist[r][i]) =>
              /\ hist[r][i].calls["secondary"] = 0
              /\ RecordOf(r, i).status = "success"
              /\ ~RecordOf(r, i).db_stored
              /\ ~RecordOf(r, i).db_stored_secondary
        /\ StoredInAllSinks(r, hist[r][i]) =>
              /\ RecordOf(r, i).status = "success"
              /\ RecordOf(r, i).db_stored
              /\ RecordOf(r, i).db_stored_secondary

C13_Witness ==
    \E r \in Runs : \E i, j \in Done(r) :
        /\ WorkerOkPrimaryFailed(r, hist[r][i])
        /\ StoredInAllSinks(r, hist[r][j])
        /\ RecordOf(r, i).status = "success"
        /\ stats[r].successful = 2
        /\ stats[r].db_failed = 1

(***************************************************************************)
(* C14: with both sinks configured and available, an item whose worker     *)
(* exits 0 with a non-empty output is stored in both sinks: its record has *)
(* status success with db_stored and db_stored_secondary both true,        *)
(* db_stored and db_stored_secondary each increase by exactly 1, and the   *)
(* fallback producer is not invoked.                                       *)
(***************************************************************************)
\* Item history h of run r: both sinks configured, no store call of the
\* item met an error, the worker's output was accepted at lines 495-499.
AcceptedWithSinksAvailable(r, h) ==
    /\ database_enabled[r] /\ secondary_database_enabled[r]
    /\ \A s \in Sinks : h.why[s] # "error"
    /\ h.worker = "zero" /\ h.accepted

\* Run r is between two items, or past the last one.
BetweenItems(r) ==
    pc[r] \in {"convert_single_file", "print_summary", "done"}

C14_AcceptedIsStoredInBoth ==
    \A r \in Runs :
        /\ \A i \in Done(r) :
              AcceptedWithSinksAvailable(r, hist[r][i]) =>
                  /\ hist[r][i].fallbacks = 0
                  /\ RecordOf(r, i).status = "success"
                  /\ RecordOf(r, i).db_stored
                  /\ RecordOf(r, i).db_stored_secondary
        /\ (BetweenItems(r) /\ \A i \in Done(r) :
                 AcceptedWithSinksAvailable(r, hist[r][i])) =>
              /\ stats[r].db_stored = Len(hist[r])
              /\ stats[r].db_stored_secondary = Len(hist[r])

(***************************************************************************)
(* C15: when the worker exceeds its timeout, the fallback producer is      *)
(* invoked (once); if it succeeds the primary store is attempted, and if   *)
(* that succeeds the secondary store is attempted, in this order; the item *)
(* ends as a success, and that the artifact came from the fallback is      *)
(* recorded for the item: every sink that stored it holds a row for the    *)
(* item's file with the mock bytes and converter_version                   *)
(* 'mock_converter_fallback'.                                              *)
(***************************************************************************)
\* The order of the steps, for the locals h of an item of run r.
TimeoutSequence(r, h) ==
    h.worker = "timeout" =>
        /\ h.accepted = FALSE
        /\ h.producer # "none" => h.producer = "mock" /\ h.fallbacks = 1
        /\ h.calls["primary"] > 0 =>
               /\ database_enabled[r] /\ h.producer = "mock"
               /\ h.calls["primary"] = 1
        /\ h.calls["secondary"] > 0 =>
               /\ secondary_database_enabled[r] /\ h.producer = "mock"
               /\ h.calls["secondary"] = 1
               /\ database_enabled[r] => h.db_stored_primary

\* Sink s holds a row of file f with the mock bytes, marked as such.
MockRowFor(s, f) ==
    \E k \in 1..Len(db[s]) :
        /\ db[s][k].filename = f
        /\ db[s][k].fragment_data = MockFragmentData(IfcData(f))
        /\ db[s][k].conversion_metadata.converter_version
              = "mock_converter_fallback"

StoredCounter(r, s) ==
    IF s = "primary" THEN stats[r].db_stored
    ELSE stats[r].db_stored_secondary

\* The flag of sink s in a result record.
StoredFlag(result, s) ==
    IF s = "primary" THEN result.db_stored ELSE result.db_stored_secondary

\* Run r has finished two items whose artifacts are the same bytes, and
\* store_fragment was called on sink s for both and met no error.
SameBytesTwice(r, s) ==
    /\ BetweenItems(r)
    /\ Len(hist[r]) = 2
    /\ RecordOf(r, 1).file # RecordOf(r, 2).file
    /\ target_dir[RecordOf(r, 1).file].exists
    /\ Len(target_dir[RecordOf(r, 1).file].data) > 0
    /\ target_dir[RecordOf(r, 1).file] = target_dir[RecordOf(r, 2).file]
    /\ \A i \in 1..2 :
          hist[r][i].calls[s] = 1 /\ hist[r][i].why[s] # "error"

RowsWithHash(s, h) == {k \in 1..Len(db[s]) : db[s][k].file_hash = h}

C16_SameBytesStoredOnce ==
    \A r \in Runs : \A s \in Sinks :
        SameBytesTwice(r, s) =>
            /\ hist[r][1].why[s] = "stored"
            /\ hist[r][2].why[s] = "present"
            /\ \A i \in 1..2 :
                  /\ RecordOf(r, i).status = "success"
                  /\ StoredFlag(RecordOf(r, i), s)
            /\ StoredCounter(r, s) = 2
            /\ Cardinality(RowsWithHash(s, calculate_file_hash(
                    target_dir[RecordOf(r, 1).file].data))) = 1

C16_Witness ==
    \E r \in Runs :
        /\ SameBytesTwice(r, "primary")
        /\ hist[r][2].why["primary"] = "present"
        /\ stats[r].db_stored = 2
        /\ stats[r].successful = 2
        /\ Len(db["primary"]) = 1

(***************************************************************************)
(* C17: a run always ends with a saved report: every run that passes       *)
(* discovery, a run in which every item failed and a run in which zero IFC *)
(* files were found included, reaches report emission (save_report)        *)
(* exactly once before convert_all_files returns and run() completes.      *)
(***************************************************************************)
C17_RunEndsWithOneReport ==
    /\ \A r \in Runs :
          /\ emitted[r] <= 1
          /\ (pc[r] \in {"done", "returned"}
                \/ run_result[r].why = "completed") => emitted[r] = 1
    /\ conv_emitted <= 1
    /\ (conv_pc \in {"done", "returned"}
          \/ conv_run_result.why = "completed") => conv_emitted = 1

(***************************************************************************)
(* C18: when a KeyboardInterrupt arrives while items are being processed,  *)
(* the run aborts and the statistics collected so far (the records of the  *)
(* items already processed) are still reported through the report emitter. *)
(***************************************************************************)
C18_InterruptStillReports ==
    /\ \A r \in Runs :
          (run_result[r].why = "interrupted"
              /\ Len(stats[r].results) > 0) => emitted[r] >= 1
    /\ (conv_run_result.why = "interrupted"
          /\ Len(conv_stats.results) > 0) => conv_emitted >= 1

(***************************************************************************)
(* C19: a failure while emitting the report (creating the report location  *)
(* or writing the file) does not change the outcome of the run: once       *)
(* save_report has been entered, run() returns what it returns when the    *)
(* report is written, True.                                                *)
(***************************************************************************)
C19_ReportFailureKeepsOutcome ==
    /\ \A r \in Runs :
          (emitted[r] > 0 /\ run_result[r].returned # "none") =>
              run_result[r].returned = "true"
    /\ (conv_emitted > 0 /\ conv_run_result.returned # "none") =>
          conv_run_result.returned = "true"

(***************************************************************************)
(* C20 as stated: the only condition that aborts a run before any item is  *)
(* processed is a discovery failure (source location missing, or discovery *)
(* raising); every other problem, an unavailable external worker included, *)
(* becomes per-item outcomes.  (An operator interrupt is left aside.)      *)
(***************************************************************************)
\* run() of converter r returned False, uninterrupted, with no item begun.
AbortedBeforeItems(r) ==
    /\ run_result[r].returned = "false"
    /\ run_result[r].why # "interrupted"
    /\ Len(stats[r].results) = 0
    /\ cur[r] = InitCur

ConvAbortedBeforeItems ==
    /\ conv_run_result.returned = "false"
    /\ conv_run_result.why # "interrupted"
    /\ Len(conv_stats.results) = 0
    /\ conv_result.status = "none"

DiscoveryFailures == {"source_missing", "unexpected_error"}

C20_OnlyDiscoveryFailureAborts ==
    /\ \A r \in Runs :
          AbortedBeforeItems(r) => run_result[r].why \in DiscoveryFailures
    /\ ConvAbortedBeforeItems => conv_run_result.why \in DiscoveryFailures

(***************************************************************************)
(* C20 amended: a run is aborted before any item is processed when         *)
(* validate_environment fails (ProjectIfcConverter: converter package or   *)
(* script missing, source directory missing, target directory cannot be    *)
(* created; IfcFragmentsConverter: Node.js unavailable, converter          *)
(* directory, script or package.json missing, dependencies missing, source *)
(* directory missing), when discovery raises, or when the operator         *)
(* interrupts: run() returns False for exactly these reasons (and when     *)
(* print_summary or save_report raises after the last item).  Every        *)
(* validation check that fails aborts the run; problems met once items are *)
(* processed become per-item outcomes: a run that completes has one record *)
(* for every discovered file.                                              *)
(***************************************************************************)
ValidationFailures ==
    {"package_missing", "script_missing", "source_missing",
     "target_mkdir_error"}

ConvValidationFailures ==
    {"node_unavailable", "converter_dir_missing", "script_missing",
     "package_json_missing", "dependencies_missing", "source_missing"}

SomeCheckFailed(result) ==
    \E k \in 1..Len(result.checks) : ~result.checks[k]

C20_ValidationOrDiscoveryAborts ==
    /\ \A r \in Runs :
          LET res == run_result[r]
          IN res.returned # "none" =>
               /\ res.why \in ValidationFailures \cup
                      {"unexpected_error", "interrupted", "completed"}
               /\ res.returned = "true" <=> res.why = "completed"
               /\ res.why # "interrupted" =>
                     (SomeCheckFailed(res) <=> res.why \in ValidationFailures)
               /\ res.why \in ValidationFailures => AbortedBeforeItems(r)
               /\ res.why = "unexpected_error" =>
                     \/ AbortedBeforeItems(r)
                     \/ /\ emitted[r] = 0
                        /\ Len(stats[r].results) = Len(ifc_files)
               /\ res.why = "completed" =>
                     Len(stats[r].results) = Len(ifc_files)
    /\ conv_run_result.returned # "none" =>
          /\ conv_run_result.why \in ConvValidationFailures \cup
                 {"unexpected_error", "interrupted", "completed"}
          /\ conv_run_result.returned = "true"
                <=> conv_run_result.why = "completed"
          /\ conv_run_result.why # "interrupted" =>
                (SomeCheckFailed(conv_run_result)
                    <=> conv_run_result.why \in ConvValidationFailures)
          /\ conv_run_result.why \in ConvValidationFailures
                => ConvAbortedBeforeItems
          /\ conv_run_result.why = "unexpected_error"
                => ConvAbortedBeforeItems \/ conv_emitted = 1
          /\ conv_run_result.why = "completed" =>
                Len(conv_stats.results) = Len(conv_files)

C20_Witness ==
    \E r \in Runs :
        /\ run_result[r].checks = << TRUE, FALSE, TRUE, TRUE >>
        /\ run_result[r] = [returned |-> "false", why |-> "script_missing",
                            checks |-> << TRUE, FALSE, TRUE, TRUE >>]
        /\ AbortedBeforeItems(r)
        /\ source_dir # {}

(***************************************************************************)
(* C21: no error of the taxonomy (launch error, timeout, empty output,     *)
(* fallback error, sink unavailable, sink write error) escapes the         *)
(* orchestrator: whatever combination of them an item meets,               *)
(* convert_single_file returns a result record whose status is success or  *)
(* failed (failed exactly when the worker and the fallback both failed),   *)
(* and run() returns True or False instead of raising.                     *)
(***************************************************************************)
\* The errors of the taxonomy the item with locals h of run r has met.
TaxonomyErrors(r, h) ==
    {e \in {"launch_error", "timeout"} : h.worker = e}
      \cup (IF h.worker \in {"zero", "nonzero"} /\ ~h.accepted
                /\ h.fallbacks > 0
            THEN {"no_output"} ELSE {})
      \cup (IF h.fallbacks > 0 /\ h.producer = "none"
                /\ h.result.status # "none"
            THEN {"fallback_error"} ELSE {})
      \cup (IF ~database_enabled[r] \/ ~secondary_database_enabled[r]
            THEN {"sink_unavailable"} ELSE {})
      \cup (IF \E s \in Sinks : h.why[s] = "error"
            THEN {"sink_write_error"} ELSE {})

C21_NoErrorEscapes ==
    \A r \in Runs :
        /\ \A i \in Done(r) :
              /\ RecordOf(r, i) = hist[r][i].result
              /\ RecordOf(r, i).status \in {"success", "failed"}
              /\ RecordOf(r, i).status = "failed"
                    <=> "fallback_error" \in TaxonomyErrors(r, hist[r][i])
        /\ pc[r] = "append" => cur[r].result.status \in {"success", "failed"}
        /\ run_result[r].returned \in {"none", "true", "false"}
        /\ pc[r] = "exited" <=> run_result[r].returned \in {"true", "false"}
        /\ (run_result[r].returned = "false"
               /\ run_result[r].why = "unexpected_error"
               /\ Len(stats[r].results) > 0) =>
              /\ emitted[r] = 0
              /\ Len(stats[r].results) = Len(ifc_files)

C21_Witness ==
    \E r \in Runs :
        /\ run_result[r].returned = "true"
        /\ Len(hist[r]) = 2
        /\ TaxonomyErrors(r, hist[r][1])
              = {"launch_error", "sink_unavailable", "sink_write_error"}
        /\ RecordOf(r, 1).status = "success"
        /\ TaxonomyErrors(r, hist[r][2])
              = {"timeout", "fallback_error", "sink_unavailable"}
        /\ RecordOf(r, 2).status = "failed"

FailedCounter(r, s) ==
    IF s = "primary" THEN stats[r].db_failed
    ELSE stats[r].db_failed_secondary

\* The store_fragment call of the item with locals h on sink s returned
\* False.
StoreFailed(h, s) == h.why[s] \in {"error", "duplicate"}

\* The counters of convert_all_files, lines 682-687, and the records.
ItemCounters(r) ==
    << stats[r].successful, stats[r].failed, stats[r].skipped,
       stats[r].results >>

C23_FailedStoreDoesNotAbort ==
    /\ [][\A r \in Runs : \A s \in Sinks :
            (~StoreFailed(cur[r], s) /\ StoreFailed(cur'[r], s)) =>
               /\ FailedCounter(r, s)' = FailedCounter(r, s) + 1
               /\ \A t \in Sinks :
                     /\ StoredCounter(r, t)' = StoredCounter(r, t)
                     /\ t # s => FailedCounter(r, t)' = FailedCounter(r, t)
               /\ ItemCounters(r)' = ItemCounters(r)
               /\ pc'[r] \in {"select", "append"}
               /\ item'[r] = item[r]]_vars
    /\ [][\A r \in Runs :
            (pc[r] = "append" /\ pc'[r] # "append"
                /\ \E s \in Sinks : StoreFailed(cur[r], s)) =>
               /\ stats'[r].results = Append(stats[r].results, cur[r].result)
               /\ stats'[r].successful = stats[r].successful + 1
               /\ SinkCounters(r)' = SinkCounters(r)
               /\ IF item[r] < Len(ifc_files)
                  THEN /\ pc'[r] = "convert_single_file"
                       /\ item'[r] = item[r] + 1
                  ELSE pc'[r] = "print_summary"]_vars
    /\ [](\A r \in Runs : \A i \in Done(r) : \A s \in Sinks :
            StoreFailed(hist[r][i], s) =>
               /\ RecordOf(r, i).status = "success"
               /\ ~StoredFlag(RecordOf(r, i), s))

C23_Witness ==
    \E r \in Runs :
        /\ Len(hist[r]) = 2
        /\ hist[r][1].why = [s \in Sinks |->
                                IF s = "primary" THEN "stored" ELSE "error"]
        /\ RecordOf(r, 1).status = "success"
        /\ hist[r][2].why["primary"] = "stored"
        /\ stats[r].db_failed_secondary = 1
        /\ stats[r].successful = 2
        /\ pc[r] = "done"

(***************************************************************************)
(* C24: the statistics hold exactly one result record per work item of the *)
(* run, appended in processing order and never removed or rewritten: every *)
(* step leaves results unchanged or appends the record of the item just    *)
(* processed; results[i] is the record of the i-th discovered file; and    *)
(* after a run over n discovered items results has length n.  In           *)
(* ProjectIfcConverter and in IfcFragmentsConverter alike.                 *)
(***************************************************************************)
\* Sequence t is sequence s with one element appended.
AppendedOne(s, t) ==
    Len(t) = Len(s) + 1 /\ SubSeq(t, 1, Len(s)) = s

\* Control points of convert_all_files after the loop over the files.
AfterLoop == {"print_summary", "done", "raised"}

C24_OneRecordPerItemInOrder ==
    /\ [][\A r \in Runs :
            \/ stats'[r].results = stats[r].results
            \/ /\ pc[r] = "append"
               /\ AppendedOne(stats[r].results, stats'[r].results)
               /\ stats'[r].results[item[r]] = cur[r].result]_vars
    /\ [][\/ conv_stats'.results = conv_stats.results
          \/ /\ conv_pc = "append"
             /\ AppendedOne(conv_stats.results, conv_stats'.results)
             /\ conv_stats'.results[conv_item] = conv_result]_vars
    /\ [](\A r \in Runs :
            /\ Len(stats[r].results) = Len(hist[r])
            /\ Len(stats[r].results) <= Len(ifc_files)
            /\ \A i \in Done(r) :
                  /\ RecordOf(r, i) = hist[r][i].result
                  /\ RecordOf(r, i).file = ifc_files[i]
            /\ (pc[r] \in AfterLoop \/ run_result[r].why = "completed")
                  => Len(stats[r].results) = Len(ifc_files))
    /\ [](/\ Len(conv_stats.results) = Len(conv_hist)
          /\ Len(conv_stats.results) <= Len(conv_files)
          /\ \A i \in 1..Len(conv_stats.results) :
                conv_stats.results[i].file = conv_files[i]
          /\ (conv_pc \in {"print_summary", "done"} \/ conv_emitted > 0
                \/ conv_run_result.why = "completed")
                => Len(conv_stats.results) = Len(conv_files))

C24_Witness ==
    \E r \in Runs :
        /\ run_result[r].why = "completed"
        /\ Len(ifc_files) = 2
        /\ Len(stats[r].results) = 2
        /\ stats[r].results[1].file = ifc_files[1]
        /\ stats[r].results[1].status = "failed"
        /\ stats[r].results[2].file = ifc_files[2]
        /\ stats[r].results[2].status = "success"

(***************************************************************************)
(* C25: work items are processed in a fixed deterministic order: the list  *)
(* of discovered files is strictly ascending by name and holds every file  *)
(* of the source directory exactly once, the item index only ever advances *)
(* by one, and the i-th result record of the statistics is the record of   *)
(* the i-th file of that list.  In both converters.                        *)
(***************************************************************************)
\* Sequence q is strictly ascending: ordered, and no element twice.
StrictlyAscending(q) ==
    \A i \in 1..Len(q) : \A j \in 1..Len(q) : i < j => q[i] < q[j]

\* Sequence q lists exactly the elements of set S.
Lists(q, S) == Len(q) = Cardinality(S) /\ { q[i] : i \in 1..Len(q) } = S

C25_LexicographicOrder ==
    /\ [](/\ StrictlyAscending(ifc_files) /\ Lists(ifc_files, source_dir)
          /\ StrictlyAscending(conv_files) /\ Lists(conv_files, conv_source))
    /\ [][/\ \A r \in Runs : item'[r] \in {item[r], item[r] + 1}
          /\ conv_item' \in {conv_item, conv_item + 1}
          /\ source_dir' = source_dir
          /\ conv_source' = conv_source]_vars
    /\ [](\A r \in Runs : \A i \in 1..Len(stats[r].results) :
            /\ stats[r].results[i].file = ifc_files[i]
            /\ \A j \in 1..Len(stats[r].results) :
                  i < j => stats[r].results[i].file
                              < stats[r].results[j].file)
    /\ [](\A i \in 1..Len(conv_stats.results) :
            /\ conv_stats.results[i].file = conv_files[i]
            /\ \A j \in 1..Len(conv_stats.results) :
                  i < j => conv_stats.results[i].file
                              < conv_stats.results[j].file)

C25_Witness ==
    /\ conv_run_result.why = "completed"
    /\ Len(conv_files) = 2
    /\ Len(conv_stats.results) = 2
    /\ conv_stats.results[1].file < conv_stats.results[2].file
    /\ conv_stats.results[1].status = "success"
    /\ conv_stats.results[2].status = "failed"

(***************************************************************************)
(* C26: within one run the items are processed strictly sequentially.  A   *)
(* worker is launched only from the launching control point of the item    *)
(* in flight, when the records of all earlier items, each with a terminal  *)
(* status, have been appended and no worker of the run is running; the     *)
(* item index advances only in the step that appends the record of the     *)
(* item in flight.                                                         *)
(***************************************************************************)
\* The statuses a record can end with.
TerminalStatuses == {"success", "failed", "skipped"}

\* The records of the items before item i, and only those, are in results.
EarlierItemsRecorded(results, i) ==
    /\ Len(results) = i - 1
    /\ \A k \in 1..Len(results) : results[k].status \in TerminalStatuses

C26_StrictlySequential ==
    /\ [][\A r \in Runs :
            (cur[r].worker = "none" /\ cur'[r].worker # "none") =>
               /\ pc[r] = "convert_single_file"
               /\ cur[r] = InitCur
               /\ EarlierItemsRecorded(stats[r].results, item[r])]_vars
    /\ [](\A r \in Runs :
            cur[r].worker # "none" =>
               EarlierItemsRecorded(stats[r].results, item[r]))
    /\ [][\A r \in Runs :
            item'[r] # item[r] /\ item[r] > 0 =>
               /\ pc[r] = "append"
               /\ item'[r] = item[r] + 1
               /\ Len(stats'[r].results) = item[r]
               /\ cur'[r] = InitCur]_vars
    /\ [][(child.state # "running" /\ child'.state = "running") =>
            /\ conv_pc = "launch"
            /\ EarlierItemsRecorded(conv_stats.results, conv_item)]_vars
    /\ [](child.state = "running" =>
            /\ conv_pc = "wait"
            /\ EarlierItemsRecorded(conv_stats.results, conv_item))
    /\ [][conv_item' # conv_item /\ conv_item > 0 =>
            /\ conv_pc = "append"
            /\ child.state # "running"
            /\ conv_item' = conv_item + 1
            /\ Len(conv_stats'.results) = conv_item]_vars

C26_Witness ==
    \E r \in Runs :
        /\ item[r] = 2
        /\ pc[r] = "parse_result"
        /\ cur[r].worker = "zero"
        /\ Len(stats[r].results) = 1
        /\ stats[r].results[1].status = "success"
        /\ hist[r][1].worker = "timeout"

(***************************************************************************)
(* C27: statistics do not persist across runs.  Whenever a run of          *)
(* convert_all_files reports (print_summary, save_report), the statistics  *)
(* count the items of that run only: there are as many result records as   *)
(* files found by the run, the status counters add up to that number, and  *)
(* no sink has more store attempts counted than the run has items; the     *)
(* same holds of every report written.                                     *)
(***************************************************************************)
\* Statistics st count the items of one run over st.total_files files.
OfOneRun(st) ==
    /\ Len(st.results) = st.total_files
    /\ st.successful + st.failed + st.skipped = st.total_files
    /\ st.db_stored + st.db_failed <= st.total_files
    /\ st.db_stored_secondary + st.db_failed_secondary <= st.total_files

C27_StatsOfThisRunOnly ==
    \A r \in Runs :
        /\ pc[r] \in {"print_summary", "done"} => OfOneRun(stats[r])
        /\ \A k \in 1..Len(reports[r]) : OfOneRun(reports[r][k])

(***************************************************************************)
(* C28: an item ends with status skipped only in interactive mode and only *)
(* when its output file already exists (the operator having declined the   *)
(* overwrite); from the step that skips it until its record is appended no *)
(* worker child is started, and its output file is the file that was there *)
(* before the run, then and ever after.  In non-interactive mode and in    *)
(* ProjectIfcConverter no record is skipped and the skipped counter is 0.  *)
(***************************************************************************)
\* The indices of the records of q that have status skipped.
SkippedIn(q) == { i \in 1..Len(q) : q[i].status = "skipped" }

C28_SkippedOnlyWhenDeclined ==
    /\ [][(conv_result.status # "skipped"
              /\ conv_result'.status = "skipped") =>
            /\ conv_pc = "convert_single_file"
            /\ interactive
            /\ conv_target[conv_file].exists
            /\ conv_pc' = "append"
            /\ child.state = "none" /\ child' = child
            /\ conv_target' = conv_target]_vars
    /\ [](conv_result.status = "skipped" =>
            /\ conv_pc \in {"append", "exited"}
            /\ child.state = "none"
            /\ conv_target[conv_file] = OldOutput)
    /\ [](\A i \in SkippedIn(conv_stats.results) :
            /\ interactive
            /\ conv_hist[i] = 0
            /\ conv_target[conv_files[i]] = OldOutput)
    /\ [](/\ conv_stats.skipped = Cardinality(SkippedIn(conv_stats.results))
          /\ ~interactive => conv_stats.skipped = 0)
    /\ [](\A r \in Runs :
            /\ stats[r].skipped = 0
            /\ SkippedIn(stats[r].results) = {}
            /\ cur[r].result.status # "skipped")

C28_Witness ==
    /\ interactive
    /\ conv_run_result.why = "completed"
    /\ Len(conv_stats.results) = 2
    /\ conv_stats.results[1].status = "skipped"
    /\ conv_target[conv_files[1]] = OldOutput
    /\ conv_stats.results[2].status = "success"
    /\ conv_target[conv_files[2]] # OldOutput
    /\ conv_stats.skipped = 1

(***************************************************************************)
(* C29: /api/convert-subprocess never removes or renames a file that       *)
(* existed before the request, other than its own output: whenever the     *)
(* server has answered a request to that endpoint, every name that was     *)
(* present in FRAGMENTS_DIR when the request was received, except the      *)
(* request's <base>_subprocess.frag, is still present.                     *)
(***************************************************************************)
C29_PreexistingFilesRemain ==
    http_pc = "idle" =>
       \A n \in http_loc.before \ {SubprocessOutputName(http_req.filename)} :
           fragments_dir[n].exists

(***************************************************************************)
(* C30: a stored record is never updated or deleted.  Every step leaves    *)
(* every row of every sink as it is and removes none, so a row once        *)
(* stored under a hash keeps its file name, source name and metadata; in   *)
(* particular a store_fragment call that finds the hash already stored     *)
(* returns with the table of the sink unchanged.                           *)
(***************************************************************************)
\* Table t holds every row of table s, at the same place.
KeepsRows(s, t) ==
    /\ Len(t) >= Len(s)
    /\ \A k \in 1..Len(s) : t[k] = s[k]

C30_StoredRecordsImmutable ==
    /\ [][\A s \in Sinks : KeepsRows(db[s], db'[s])]_vars
    /\ [][\A r \in Runs : \A s \in Sinks :
            (cur[r].why[s] # "present" /\ cur'[r].why[s] = "present") =>
               /\ HashPresent(db[s],
                     calculate_file_hash(output_file(r).data))
               /\ db'[s] = db[s]]_vars
    /\ [](\A s \in Sinks : \A k \in 1..Len(db[s]) :
            /\ db[s][k].id = k
            /\ db[s][k].ifc_source_file = db[s][k].filename
            /\ \A j \in 1..Len(db[s]) :
                  db[s][j].file_hash = db[s][k].file_hash => j = k)

C30_Witness ==
    \E r \in Runs :
        /\ SameBytesTwice(r, "primary")
        /\ hist[r][1].why["primary"] = "stored"
        /\ hist[r][2].why["primary"] = "present"
        /\ Len(db["primary"]) = 1
        /\ db["primary"][1].filename = RecordOf(r, 1).file
        /\ db["primary"][1].filename # RecordOf(r, 2).file

(***************************************************************************)
(* C31: in IfcFragmentsConverter.convert_single_file the success of a      *)
(* conversion is decided by the child's exit code and the existence of     *)
(* the output file, never by what the child printed: every item whose      *)
(* record has status success has an output file in the target directory.   *)
(***************************************************************************)
C31_SuccessOnlyWithOutput ==
    \A i \in 1..Len(conv_stats.results) :
        conv_stats.results[i].status = "success" =>
           conv_target[conv_files[i]].exists

(***************************************************************************)
(* C32: /api/convert selects exactly one of three tiers from the size of   *)
(* the upload: above 50 MB the large tier (8192 MB, 3600 s), above 20 MB   *)
(* and up to 50 MB the medium tier (4096 MB, 1800 s), up to 20 MB (0 and   *)
(* exactly 20 MB included) the small tier (no memory flag, 600 s); every   *)
(* size gets a tier.                                                       *)
(***************************************************************************)
LargeTier == [memory |-> 8192, timeout |-> 3600]
MediumTier == [memory |-> 4096, timeout |-> 1800]
SmallTier == [memory |-> 0, timeout |-> 600]

\* The tier selected for size is the one its range of sizes asks for.
TierAsRanged(size, tier) ==
    /\ tier \in {LargeTier, MediumTier, SmallTier}
    /\ tier = LargeTier <=> size > 50 * MB
    /\ tier = MediumTier <=> (20 * MB < size /\ size <= 50 * MB)
    /\ tier = SmallTier <=> (0 <= size /\ size <= 20 * MB)

C32_ThreeTiers ==
    policy_out.endpoint = "convert" =>
        /\ TierAsRanged(policy_in[1], policy_out.first)
        /\ TierAsRanged(policy_in[2], policy_out.second)

C32_Witness ==
    /\ policy_out.endpoint = "convert"
    /\ policy_in = << 20 * MB, 50 * MB >>
    /\ policy_out.first = SmallTier
    /\ policy_out.second = MediumTier

(***************************************************************************)
(* C33: for each item sink persistence follows a fixed protocol.  The      *)
(* store_fragment of a sink is called at most once for the item and only   *)
(* if the sink is enabled; the secondary call starts only when the primary *)
(* call, if the primary is enabled, has returned; and a store call starts  *)
(* only for an item whose conversion has produced an artifact (the worker  *)
(* attempt was accepted, or the fallback wrote its mock), the item ending  *)
(* with status success.                                                    *)
(***************************************************************************)
\* Whether sink s is enabled in run r.
SinkEnabled(r, s) ==
    IF s = "primary" THEN database_enabled[r]
    ELSE secondary_database_enabled[r]

\* A store_fragment call on sink s starts in this step of run r.
CallStarts(r, s) == cur'[r].calls[s] > cur[r].calls[s]

C33_StoreProtocol ==
    /\ [](\A r \in Runs : \A s \in Sinks :
            /\ cur[r].calls[s] <= 1
            /\ cur[r].calls[s] > 0 => SinkEnabled(r, s)
            /\ cur[r].why[s] # "none" => cur[r].calls[s] = 1
            /\ \A i \in Done(r) :
                  /\ hist[r][i].calls[s] <= 1
                  /\ hist[r][i].calls[s] > 0 =>
                        RecordOf(r, i).status = "success")
    /\ [][\A r \in Runs :
            CallStarts(r, "secondary") =>
               /\ cur[r].sink # "secondary"
               /\ database_enabled[r] =>
                     /\ cur[r].calls["primary"] = 1
                     /\ pc[r] \in {"select", "insert"}
                     /\ cur[r].sink = "primary"
                     /\ cur'[r].why["primary"] \in {"stored", "present"}
               /\ ~database_enabled[r] => cur[r].calls["primary"] = 0]_vars
    /\ [][\A r \in Runs :
            CallStarts(r, "primary") =>
               /\ cur[r].calls["secondary"] = 0
               /\ cur[r].why["secondary"] = "none"]_vars
    /\ [][\A r \in Runs : \A s \in Sinks :
            CallStarts(r, s) =>
               /\ cur'[r].producer \in {"portable", "mock"}
               /\ cur'[r].producer = "portable" =>
                     /\ cur[r].accepted
                     /\ WorkerAccepted(cur[r].worker, output_file(r))
               /\ cur'[r].producer = "mock" =>
                     /\ cur'[r].fallbacks = 1
                     /\ target_dir'[ifc_file(r)].exists]_vars

C33_Witness ==
    \E r \in Runs :
        /\ database_enabled[r] /\ secondary_database_enabled[r]
        /\ Len(hist[r]) >= 1
        /\ hist[r][1].calls = [s \in Sinks |-> 1]
        /\ hist[r][1].why = [s \in Sinks |-> "stored"]
        /\ RecordOf(r, 1).status = "success"
        /\ RecordOf(r, 1).db_stored /\ RecordOf(r, 1).db_stored_secondary

(***************************************************************************)
(* C34: the fallback artifact is a deterministic, bounded function of the  *)
(* input: the header marker, then the first min(1024, len(input)) bytes of *)
(* the input, then the footer marker; it is never empty, not even for an   *)
(* empty input; and two inputs with the same first 1024 bytes give the     *)
(* same artifact and the same content hash.                                *)
(***************************************************************************)
\* The first 1024 bytes of data, or all of it if it is shorter.
FirstKB(data) == [i \in 1..Min(1024, Len(data)) |-> data[i]]

\* Artifact out is header, FirstKB(data), footer (a marker is one element).
IsMockOf(out, data) ==
    /\ Len(out) = Len(FirstKB(data)) + 2
    /\ out[1] = "MOCK_FRAGMENT_HEADER\n"
    /\ out[Len(out)] = "\nMOCK_FRAGMENT_FOOTER"
    /\ \A i \in 1..Len(FirstKB(data)) : out[i + 1] = data[i]

C34_MockIsBoundedFunction ==
    mock_out.made =>
       /\ IsMockOf(mock_out.first, mock_in[1])
       /\ IsMockOf(mock_out.second, mock_in[2])
       /\ Len(mock_out.first) > 0 /\ Len(mock_out.first) <= 1024 + 2
       /\ Len(mock_out.second) > 0 /\ Len(mock_out.second) <= 1024 + 2
       /\ FirstKB(mock_in[1]) = FirstKB(mock_in[2]) =>
             /\ mock_out.first = mock_out.second
             /\ mock_out.first_hash = mock_out.second_hash
       /\ mock_in[1] = mock_in[2] => mock_out.first = mock_out.second

C34_Witness ==
    /\ mock_out.made
    /\ Len(mock_in[1]) = 1024 + 1 /\ Len(mock_in[2]) = 1024 + 2
    /\ mock_in[1] # mock_in[2]
    /\ mock_in[1][1024 + 1] # mock_in[2][1024 + 1]
    /\ FirstKB(mock_in[1]) = FirstKB(mock_in[2])
    /\ mock_out.first = mock_out.second
    /\ mock_out.first_hash = mock_out.second_hash
    /\ Len(mock_out.first) = 1024 + 2

(***************************************************************************)
(* C35: in every state of a run of convert_all_files, of either converter, *)
(* successful + failed + skipped equals the number of result records and   *)
(* is at most total_files; once the loop over the files is over, it equals *)
(* total_files.                                                            *)
(***************************************************************************)
\* The items counted in statistics st.
CountedItems(st) == st.successful + st.failed + st.skipped

\* The counters of st agree with its records and do not exceed total_files.
CountersAgree(st) ==
    /\ CountedItems(st) = Len(st.results)
    /\ CountedItems(st) <= st.total_files
    /\ st.successful >= 0 /\ st.failed >= 0 /\ st.skipped >= 0

C35_CountersMatchRecords ==
    /\ \A r \in Runs :
          /\ CountersAgree(stats[r])
          /\ (pc[r] \in AfterLoop \cup {"returned"}
                 \/ run_result[r].why = "completed")
                => CountedItems(stats[r]) = stats[r].total_files
          /\ \A k \in 1..Len(reports[r]) :
                CountedItems(reports[r][k]) = reports[r][k].total_files
    /\ CountersAgree(conv_stats)
    /\ (conv_pc \in AfterLoop \cup {"returned"}
           \/ conv_run_result.why = "completed")
          => CountedItems(conv_stats) = conv_stats.total_files
    /\ \A k \in 1..Len(conv_reports) :
          CountedItems(conv_reports[k]) = conv_reports[k].total_files

C35_Witness ==
    \E r \in Runs :
        /\ pc[r] = "done"
        /\ stats[r].total_files = 2
        /\ stats[r].successful = 1
        /\ stats[r].failed = 1
        /\ stats[r].skipped = 0
        /\ Len(reports[r]) = 1
        /\ reports[r][1].successful = 1 /\ reports[r][1].failed = 1

(***************************************************************************)
(* C36 as stated: the per-sink counters are consistent with the item       *)
(* counters in every reachable state of a run.  With the primary sink      *)
(* enabled, db_stored + db_failed equals the number of records with status *)
(* success and db_stored_secondary + db_failed_secondary <= db_stored;     *)
(* with the primary sink disabled, db_stored = db_failed = 0 and, when the *)
(* secondary is enabled, db_stored_secondary + db_failed_secondary equals  *)
(* the number of success records.                                          *)
(***************************************************************************)
\* The number of records of run r with status success.
SuccessRecords(r) ==
    Cardinality({ i \in 1..Len(stats[r].results) :
                     stats[r].results[i].status = "success" })

\* The store calls counted for sink s in run r.
CountedCalls(r, s) == StoredCounter(r, s) + FailedCounter(r, s)

\* 1 if the store call of the item in flight on sink s has returned (its
\* record is not appended yet: lines 611-615 and 638-642 come before line
\* 679), else 0.
InFlight(r, s) == IF cur[r].why[s] # "none" THEN 1 ELSE 0

\* The counters of run r stand in the relation of the claim to the success
\* records, sink s being ahead of the records by ahead[s] calls.
SinkCountersMatch(r, ahead) ==
    /\ database_enabled[r] =>
          /\ CountedCalls(r, "primary")
                = SuccessRecords(r) + ahead["primary"]
          /\ CountedCalls(r, "secondary") <= stats[r].db_stored
    /\ ~database_enabled[r] =>
          /\ stats[r].db_stored = 0 /\ stats[r].db_failed = 0
          /\ secondary_database_enabled[r] =>
                CountedCalls(r, "secondary")
                   = SuccessRecords(r) + ahead["secondary"]

C36_SinkCountersMatchRecords ==
    \A r \in Runs : SinkCountersMatch(r, [s \in Sinks |-> 0])

(***************************************************************************)
(* C36, amended: the relation holds whenever no store call of an item in   *)
(* flight has returned (before the first item, between two items, after    *)
(* the last).  While an item is in flight, or after an interrupt abandoned *)
(* it, a sink's counters already include the item's store call that has    *)
(* returned, so they are ahead of the success records by exactly one.  A   *)
(* disabled sink's counters are 0.                                         *)
(***************************************************************************)
C36_SinkCountersMatchBetweenItems ==
    \A r \in Runs :
        /\ SinkCountersMatch(r, [s \in Sinks |-> InFlight(r, s)])
        /\ (\A s \in Sinks : cur[r].why[s] = "none") =>
              SinkCountersMatch(r, [s \in Sinks |-> 0])
        /\ \A s \in Sinks : ~SinkEnabled(r, s) => CountedCalls(r, s) = 0

C36_Witness ==
    \E r \in Runs :
        /\ database_enabled[r] /\ secondary_database_enabled[r]
        /\ item[r] = 2
        /\ pc[r] = "select" /\ cur[r].sink = "secondary"
        /\ cur[r].why["primary"] = "stored"
        /\ SuccessRecords(r) = 1
        /\ CountedCalls(r, "primary") = 2
        /\ CountedCalls(r, "secondary") = 1

(***************************************************************************)
(* C37: an attempt is accepted as a worker success only if the artifact at *)
(* the output path was written by that attempt: whenever                   *)
(* convert_single_file takes the worker's attempt for a success, the       *)
(* worker of that attempt has written the output file.                     *)
(***************************************************************************)
C37_AcceptedOnlyIfWritten ==
    \A r \in Runs :
        /\ cur[r].accepted => cur[r].wrote
        /\ \A i \in Done(r) : hist[r][i].accepted => hist[r][i].wrote

(***************************************************************************)
(* C38: each request launches the conversion worker at most once: neither  *)
(* /api/convert nor /api/convert-subprocess calls subprocess.run a second  *)
(* time for the same upload.                                               *)
(***************************************************************************)
C38_WorkerLaunchedAtMostOnce == http_loc.launches <= 1

(***************************************************************************)
(* C39: the temporary copy of the upload is removed on every terminating   *)
(* path of a conversion request of either endpoint: once a request has     *)
(* been answered, no temporary file created by a request is left.          *)
(***************************************************************************)
C39_NoTempFileOutlivesRequest == http_pc = "idle" => temp_files = {}

(***************************************************************************)
(* C40: every conversion request of either endpoint ends with a structured *)
(* JSON response: an upload that is missing, unnamed or not named *.ifc is *)
(* answered 400 with no worker launched and no file created, and every     *)
(* failure after validation is answered with success = false.              *)
(***************************************************************************)
C40_EveryRequestAnsweredInJson ==
    (http_pc = "idle" /\ http_n > 0) =>
        /\ http_resp.json
        /\ IF ValidUpload(http_req)
           THEN http_resp.success \in {"true", "false"}
           ELSE /\ http_resp.code = 400
                /\ http_loc.launches = 0
                /\ http_loc.temp = "none"

====
